---- MODULE Spec2Model ----
(***************************************************************************)
(* A model of the TRPG game-master service: the Flask/Socket.IO            *)
(* application (app.py), the LangChain game master (agents/gamemaster.py), *)
(* the conversation and vector memories (memory/*.py), the chat history   *)
(* writer (data/mongo_manager.py) and the relay server test_ws_server.py.  *)
(*                                                                         *)
(* Conventions.                                                            *)
(*  - A Python string whose content matters is a sequence of one-character *)
(*    strings, so that str.strip() is computed and not assumed.            *)
(*  - A Python dict is a function whose DOMAIN is its key set; d.get(k, x) *)
(*    is Get(d, k, x).  A JSON value whose Python type is tested by the    *)
(*    code (isinstance) is a tagged record [t |-> type, v |-> value].      *)
(*  - None is NoneVal where the other values of the field are strings.     *)
(*  - An ISO timestamp is the clock reading that produced it (a positive   *)
(*    number); the missing timestamp '' is 0, which sorts before all of    *)
(*    them exactly as '' sorts before every ISO string.                    *)
(*  - Every HTTP / Socket.IO handler is one action.  The external services *)
(*    (LLM, game API, Chroma, MongoDB, ComfyUI) answer nondeterministically*)
(*    and each answer is drawn with \E inside the handler's action.        *)
(***************************************************************************)
EXTENDS Naturals, Integers, Sequences, FiniteSets, TLC

VARIABLES
    game_sessions,    \* app.py game_sessions: game_id -> session record
    namespaces,       \* Socket.IO namespace handlers registered, in order
    clients,          \* Socket.IO: connected clients per registered game
    events,           \* events emitted to the clients, in order
    game_memories,    \* TRPGMemoryManager.game_memories: game_id -> messages
    session_contexts, \* SessionContextManager.session_contexts
    vector_stores,    \* VectorMemoryManager.vector_stores (keys)
    retrievers,       \* VectorMemoryManager.retrievers (keys)
    base_scenarios,   \* VectorMemoryManager.base_scenarios (cache)
    chroma,           \* the persistent Chroma collections: game_id -> docs
    chat_history,     \* MongoDB chat_history collection: game_id -> messages
    backend,          \* the external game API: game_id -> character list
    now,              \* the wall clock read by datetime.now()
    llm_calls,        \* number of LLM invocations made so far
    patches,          \* PATCH payloads sent to the game API, in order
    calls,            \* number of requests still to be handled
    comfy_manager,    \* app.py comfy_manager: "ready", or NoneVal
    threads,          \* the image-polling threads started, in order
    polling,          \* wait_and_send: the seconds each thread has waited
    auto_clients,     \* test_ws_server.py: the internal client of each game
    writers,          \* the callers of add_chat_message and where they stand
    merge,            \* the _deep_merge call examined: arguments and outcome
    templates,        \* MongoDB template collections, and the lookup running
    lastOp            \* the last handler that ran: its input and its result

sessVars == <<game_sessions, namespaces, clients>>
memVars  == <<game_memories, session_contexts, vector_stores, retrievers,
              base_scenarios>>
extVars  == <<chroma, chat_history, backend, now>>
logVars  == <<llm_calls, patches>>
imgVars  == <<comfy_manager, threads>>
auxVars  == <<polling, auto_clients, writers, merge, templates>>
vars == <<game_sessions, namespaces, clients, events, game_memories,
          session_contexts, vector_stores, retrievers, base_scenarios,
          chroma, chat_history, backend, now, llm_calls, patches, calls,
          comfy_manager, threads, polling, auto_clients, writers, merge,
          templates, lastOp>>

-----------------------------------------------------------------------------
(* Bounds of the model. *)

\* requests to the session endpoints in one behaviour
MaxCalls == 3
\* requests to the game-master endpoints in one behaviour
MaxChatCalls == 2
\* 'message' events received in one behaviour
MaxMessages == 2
\* clients connected to one namespace at a time
MaxConn == 2
\* dialogue turns already persisted in a Chroma collection at start-up
MaxPriorTurns == 6
\* chat messages already stored in MongoDB for a game at start-up
MaxRestored == 2
\* concurrent callers of add_chat_message
MaxWriters == 3
\* image jobs requested in one behaviour of the polling threads
MaxJobs == 1
\* images a finished ComfyUI job lists
MaxImages == 2
\* seconds a history query may take
MaxQuerySeconds == 1

-----------------------------------------------------------------------------
(* Values. *)

NoneVal == "None"
Games == {"g1", "default-game"}
SessionIds == {"s1"}

\* d.get(k, default) of a Python dict
Get(d, k, default) == IF k \in DOMAIN d THEN d[k] ELSE default

\* Python truthiness of an optional string (None and '' are falsy)
Truthy(v) == v # NoneVal /\ v # ""

\* dict d with key k set to v
Put(d, k, v) == [x \in DOMAIN d \cup {k} |-> IF x = k THEN v ELSE d[x]]

\* dict d without key k
Del(d, k) == [x \in DOMAIN d \ {k} |-> d[x]]

EmptyDict == [x \in {} |-> 0]

\* no _deep_merge call is examined
NoMerge == [state |-> "none"]

\* no template lookup is examined
NoTemplates == [state |-> "none"]

IsSpace(c) == c \in {" ", "\t", "\n"}

RECURSIVE LStrip(_)
LStrip(s) == IF s # <<>> /\ IsSpace(Head(s)) THEN LStrip(Tail(s)) ELSE s

RECURSIVE RStrip(_)
RStrip(s) == IF s # <<>> /\ IsSpace(s[Len(s)])
             THEN RStrip(SubSeq(s, 1, Len(s) - 1)) ELSE s

\* str.strip()
Strip(s) == RStrip(LStrip(s))

\* f"/game/{game_id}"
Namespace(game_id) == <<"/game/", game_id>>

-----------------------------------------------------------------------------
(* app.py: session registration and the namespace's connection handlers. *)

\* The JSON bodies a client may post to /api/session/create.  json = FALSE
\* is a request whose body is not a JSON object: request.get_json() gives
\* None or raises, and data.get(...) raises on what it gives.
SessionBodies ==
    {[json |-> FALSE, data |-> EmptyDict]}
    \cup {[json |-> TRUE, data |-> EmptyDict]}
    \cup {[json |-> TRUE, data |-> [session_id |-> s]] : s \in SessionIds}
    \cup {[json |-> TRUE, data |-> [game_id |-> g]] : g \in Games \cup {""}}
    \cup {[json |-> TRUE, data |-> [game_id |-> g, session_id |-> s]] :
            g \in Games \cup {""}, s \in SessionIds}

\* the response of create_session and its effect on game_sessions and the
\* registered namespaces, as [status, json, sessions, namespaces]
create_session_missing_check(body, sessions, nss) ==
    IF ~body.json
    THEN [status |-> 500, json |-> [success |-> FALSE, error |-> "exception"],
          sessions |-> sessions, namespaces |-> nss]
    ELSE LET game_id == Get(body.data, "game_id", NoneVal)
             session_id == Get(body.data, "session_id", NoneVal)
         IN IF ~Truthy(game_id)
            THEN [status |-> 400,
                  json |-> [success |-> FALSE, error |-> "game_id required"],
                  sessions |-> sessions, namespaces |-> nss]
            ELSE [status |-> 200,
                  json |-> [success |-> TRUE, game_id |-> game_id,
                            session_id |-> session_id,
                            websocket_namespace |-> Namespace(game_id)],
                  sessions |-> Put(sessions, game_id,
                                   [session_id |-> session_id, active |-> TRUE,
                                    connection_count |-> 0]),
                  namespaces |-> Append(nss, Namespace(game_id))]

create_session(body, sessions, nss) ==
    IF ~body.json
    THEN [status |-> 500, json |-> [success |-> FALSE, error |-> "exception"],
          sessions |-> sessions, namespaces |-> nss]
    ELSE LET game_id == Get(body.data, "game_id", NoneVal)
             session_id == Get(body.data, "session_id", NoneVal)
         IN IF ~Truthy(game_id)
            THEN [status |-> 400,
                  json |-> [success |-> FALSE, error |-> "game_id required"],
                  sessions |-> sessions, namespaces |-> nss]
            ELSE IF game_id \in DOMAIN sessions
            THEN [status |-> 200,
                  json |-> [success |-> TRUE, game_id |-> game_id,
                            websocket_namespace |-> Namespace(game_id),
                            status |-> "already_exists"],
                  sessions |-> sessions, namespaces |-> nss]
            ELSE [status |-> 200,
                  json |-> [success |-> TRUE, game_id |-> game_id,
                            session_id |-> session_id,
                            websocket_namespace |-> Namespace(game_id)],
                  sessions |-> Put(sessions, game_id,
                                   [session_id |-> session_id, active |-> TRUE,
                                    connection_count |-> 0]),
                  namespaces |-> Append(nss, Namespace(game_id))]

\* POST /api/session/create
CreateSession(body) ==
    /\ calls > 0
    /\ LET r == create_session(body, game_sessions, namespaces)
       IN /\ game_sessions' = r.sessions
          /\ namespaces' = r.namespaces
          /\ clients' = [g \in DOMAIN r.sessions |-> Get(clients, g, 0)]
          /\ lastOp' = [op |-> "create_session", body |-> body,
                        status |-> r.status, json |-> r.json,
                        existed |-> (body.json
                                     /\ Get(body.data, "game_id", NoneVal)
                                          \in DOMAIN game_sessions),
                        before |-> game_sessions, nsBefore |-> namespaces]
    /\ calls' = calls - 1
    /\ UNCHANGED <<events, memVars, extVars, logVars, imgVars, auxVars>>

\* GameNamespace.on_connect: a client connects to a registered namespace
OnConnect(g) ==
    /\ calls > 0
    /\ Namespace(g) \in {namespaces[i] : i \in DOMAIN namespaces}
    /\ clients[g] < MaxConn
    /\ clients' = [clients EXCEPT ![g] = @ + 1]
    /\ game_sessions' =
         IF g \in DOMAIN game_sessions
         THEN [game_sessions EXCEPT ![g].connection_count = @ + 1]
         ELSE game_sessions
    /\ events' = Append(events, [event |-> "status", namespace |-> Namespace(g)])
    /\ lastOp' = [op |-> "on_connect", game_id |-> g]
    /\ calls' = calls - 1
    /\ UNCHANGED <<namespaces, memVars, extVars, logVars, imgVars, auxVars>>

\* GameNamespace.on_disconnect: a connected client goes away
OnDisconnect(g) ==
    /\ Namespace(g) \in {namespaces[i] : i \in DOMAIN namespaces}
    /\ clients[g] > 0
    /\ clients' = [clients EXCEPT ![g] = @ - 1]
    /\ game_sessions' =
         IF g \in DOMAIN game_sessions
         THEN [game_sessions EXCEPT ![g].connection_count = @ - 1]
         ELSE game_sessions
    /\ lastOp' = [op |-> "on_disconnect", game_id |-> g]
    /\ UNCHANGED <<namespaces, events, memVars, extVars, logVars, imgVars, auxVars,
                   calls>>

-----------------------------------------------------------------------------
(* JSON values whose Python type the code tests. *)

JNum(n)  == [t |-> "num", v |-> n]
JStr(x)  == [t |-> "str", v |-> x]
JList(l) == [t |-> "list", v |-> l]
JDict(d) == [t |-> "dict", v |-> d]
JNull    == [t |-> "null", v |-> 0]

\* the texts of the model: player inputs and game-master messages
UserText == <<"g", "o">>
GmText   == <<"o", "k">>
RawText  == <<"h", "m">>
ImagePrompt == <<"p">>

-----------------------------------------------------------------------------
(* data/mongo_manager.py: the template collections and the chat history.  *)

\* the keys of the documents _initialize_default_data inserts, in order
DefaultScenarios == <<"medieval_fantasy", "cyberpunk", "space_exploration">>
DefaultCharacterTemplates == <<"adventurer", "wizard", "warrior">>
DefaultLocations == <<"village_inn", "dark_forest", "ancient_dungeon">>
DefaultEventTemplates ==
    <<"random_encounter", "puzzle_challenge", "combat_encounter">>

\* one entry of get_all_data_for_vectorization
TemplateData(type, key) ==
    [content |-> <<type, key>>, metadata |-> [type |-> type, id |-> key]]

\* ScenarioDataManager.get_all_data_for_vectorization
get_all_data_for_vectorization ==
    [i \in 1..Len(DefaultScenarios) |->
        TemplateData("scenario", DefaultScenarios[i])]
    \o [i \in 1..Len(DefaultCharacterTemplates) |->
        TemplateData("character_template", DefaultCharacterTemplates[i])]
    \o [i \in 1..Len(DefaultLocations) |->
        TemplateData("location", DefaultLocations[i])]
    \o [i \in 1..Len(DefaultEventTemplates) |->
        TemplateData("event_template", DefaultEventTemplates[i])]

\* a stored chat_history message of MongoDB
ChatMessage(g, n) ==
    [game_id |-> g, sequence_number |-> n, user_input |-> UserText,
     ai_response |-> GmText]

RECURSIVE InsertBySeq(_, _)
InsertBySeq(m, s) ==
    IF s = <<>> THEN <<m>>
    ELSE IF m.sequence_number < Head(s).sequence_number
         THEN <<m>> \o s
         ELSE <<Head(s)>> \o InsertBySeq(m, Tail(s))

RECURSIVE SortBySeq(_)
SortBySeq(s) ==
    IF s = <<>> THEN <<>>
    ELSE InsertBySeq(s[Len(s)], SortBySeq(SubSeq(s, 1, Len(s) - 1)))

\* ScenarioDataManager.get_chat_history: the `limit` messages with the
\* highest sequence numbers, in ascending sequence order
mongo_get_chat_history(msgs, limit) ==
    LET sorted == SortBySeq(msgs)
        n == Len(sorted)
    IN IF n > limit THEN SubSeq(sorted, n - limit + 1, n) ELSE sorted

\* add_chat_message, lines 226-231: the sequence number after the highest
\* one stored for the game, 1 when the game has no message
next_sequence(msgs) ==
    IF msgs = <<>> THEN 1
    ELSE LET max_seq_doc ==
                 CHOOSE m \in {msgs[i] : i \in DOMAIN msgs} :
                     \A i \in DOMAIN msgs :
                         msgs[i].sequence_number <= m.sequence_number
         IN max_seq_doc.sequence_number + 1

\* a chat_history collection without the unique index
NoUniqueIndex(msgs, seq) == FALSE

\* the unique index on (game_id, sequence_number) of _create_indexes
\* rejects the insert: the game has a message with this sequence number
DuplicateKey(msgs, seq) ==
    \E i \in DOMAIN msgs : msgs[i].sequence_number = seq

\* a retry that inserts the same message again
AfterConflictInsertAgain == "insert"

\* add_chat_message, lines 246-249: after a duplicate key error the
\* function calls itself, which starts with find_one
AfterConflict == "find"

\* a caller that has not called yet
IdleWriter ==
    [pc |-> "idle", game_id |-> NoneVal, next_sequence |-> 0,
     retried |-> FALSE]

\* caller w calls add_chat_message(game_id, ...)
CallAddChatMessage(w, g) ==
    /\ w \in DOMAIN writers
    /\ writers[w].pc = "idle"
    /\ writers' = [writers EXCEPT ![w].pc = "find", ![w].game_id = g]
    /\ lastOp' = [op |-> "add_chat_message", writer |-> w]
    /\ UNCHANGED <<sessVars, events, memVars, extVars, logVars, imgVars,
                   polling, auto_clients, calls, merge, templates>>

\* find_one of caller w: it reads the highest sequence number of its game
FindMax(w) ==
    /\ w \in DOMAIN writers
    /\ writers[w].pc = "find"
    /\ writers' = [writers EXCEPT
                     ![w].pc = "insert",
                     ![w].next_sequence =
                         next_sequence(chat_history[writers[w].game_id])]
    /\ lastOp' = [op |-> "find_one", writer |-> w]
    /\ UNCHANGED <<sessVars, events, memVars, extVars, logVars, imgVars,
                   polling, auto_clients, calls, merge, templates>>

\* insert_one of caller w is answered by the server: the message is
\* stored and the call returns, or the unique index rejects it and the
\* call starts again
InsertOne(w) ==
    /\ w \in DOMAIN writers
    /\ writers[w].pc = "insert"
    /\ LET g == writers[w].game_id
           seq == writers[w].next_sequence
       IN IF DuplicateKey(chat_history[g], seq)
          THEN /\ writers' = [writers EXCEPT ![w].pc = AfterConflict,
                                             ![w].retried = TRUE]
               /\ lastOp' = [op |-> "insert_one", writer |-> w,
                             outcome |-> "duplicate key"]
               /\ UNCHANGED chat_history
          ELSE /\ chat_history' =
                    [chat_history EXCEPT ![g] =
                        Append(@, [game_id |-> g, sequence_number |-> seq,
                                   user_input |-> UserText,
                                   ai_response |-> GmText,
                                   metadata |-> [writer |-> w]])]
               /\ writers' = [writers EXCEPT ![w].pc = "returned"]
               /\ lastOp' = [op |-> "insert_one", writer |-> w,
                             outcome |-> "inserted"]
    /\ UNCHANGED <<sessVars, events, memVars, chroma, backend, now, logVars,
                   imgVars, polling, auto_clients, calls, merge, templates>>

\* find_one or insert_one of caller w fails with another error, which
\* add_chat_message raises to its caller
RequestFails(w) ==
    /\ w \in DOMAIN writers
    /\ writers[w].pc \in {"find", "insert"}
    /\ writers' = [writers EXCEPT ![w].pc = "raised"]
    /\ lastOp' = [op |-> "request_fails", writer |-> w,
                  during |-> writers[w].pc]
    /\ UNCHANGED <<sessVars, events, memVars, extVars, logVars, imgVars,
                   polling, auto_clients, calls, merge, templates>>

-----------------------------------------------------------------------------
(* data/mongo_manager.py: ScenarioDataManager and its template lookups.    *)
(* `templates` holds the four template collections as the keys of their    *)
(* documents in insertion order, whether the module-level manager has been *)
(* built, and the lookup made last.                                        *)

\* the collections in the order _initialize_default_data fills them
TemplateCollections ==
    <<"scenarios", "character_templates", "locations", "event_templates">>

\* the keys of the default documents, in the order of the inserted lists
\* (the location keys are Korean in the source)
DefaultKeys ==
    [scenarios |-> <<"medieval_fantasy", "cyberpunk", "space_exploration">>,
     character_templates |-> <<"adventurer", "wizard", "warrior">>,
     locations |-> <<"village_inn", "dark_forest", "ancient_dungeon">>,
     event_templates |->
         <<"random_encounter", "puzzle_challenge", "combat_encounter">>]

EmptyDatabase == [c \in DOMAIN DefaultKeys |-> <<>>]

NoLookup == [fn |-> "none"]

\* _initialize_default_data: the database it leaves.  The defaults are
\* inserted only into a database without scenarios; insert_many number
\* `fail` (0: none) fails after the server has stored the first `stored`
\* documents of its list, and the later lists are not inserted.
_initialize_default_data(db, fail, stored) ==
    IF Len(db["scenarios"]) # 0 THEN db
    ELSE [c \in DOMAIN db |->
            LET i == CHOOSE j \in DOMAIN TemplateCollections :
                        TemplateCollections[j] = c
            IN IF fail = 0 \/ i < fail THEN db[c] \o DefaultKeys[c]
               ELSE IF i = fail
               THEN db[c] \o SubSeq(DefaultKeys[c], 1, stored)
               ELSE db[c]]

\* ScenarioDataManager() at the import of the module: the manager exists
\* when __init__ has returned, and not when an insert raised
StartManager(fail, stored) ==
    /\ templates.manager = "down"
    /\ LET raised == Len(templates.db["scenarios"]) = 0 /\ fail # 0
       IN templates' =
            [manager |-> IF raised THEN "down" ELSE "ready",
             db |-> _initialize_default_data(templates.db, fail, stored),
             lookup |-> NoLookup]
    /\ lastOp' = [op |-> "ScenarioDataManager"]
    /\ UNCHANGED <<sessVars, events, memVars, extVars, logVars, imgVars,
                   polling, auto_clients, writers, merge, calls>>

\* collection.find_one({<key field>: key}): <<document>>, or <<>> for None
find_one(coll, key) ==
    IF \E i \in DOMAIN coll : coll[i] = key
    THEN <<[key |-> key, _id |-> [t |-> "ObjectId", v |-> key]]>>
    ELSE <<>>

\* the shape the three lookups share: the document found, its _id made a
\* string, or else the same lookup of the default key.  The lookup of a
\* default key that is missing calls itself with the same argument on the
\* same collection, without end: the interpreter raises RecursionError.
RECURSIVE find_or_default(_, _, _)
find_or_default(coll, key, default) ==
    LET found == find_one(coll, key)
    IN IF found # <<>>
       THEN [raised |-> FALSE,
             doc |-> [found[1] EXCEPT !._id = JStr(found[1]._id.v)]]
       ELSE IF key = default
       THEN [raised |-> TRUE]
       ELSE find_or_default(coll, default, default)

get_scenario_by_type(db, scenario_type) ==
    find_or_default(db["scenarios"], scenario_type, "medieval_fantasy")

get_character_template(db, character_type) ==
    find_or_default(db["character_templates"], character_type, "adventurer")

get_event_template(db, event_type) ==
    find_or_default(db["event_templates"], event_type, "random_encounter")

\* the arguments of the lookups: two default keys and an unknown one each
ScenarioTypes == {"medieval_fantasy", "cyberpunk", "steampunk"}
CharacterTypes == {"adventurer", "wizard", "bard"}
EventTypes == {"random_encounter", "puzzle_challenge", "boss_fight"}

\* the lookup made last becomes fn(arg) with its result
Looked(fn, arg, result) ==
    [templates EXCEPT !.lookup = [fn |-> fn, arg |-> arg, result |-> result]]

GetScenarioByType(scenario_type) ==
    /\ templates.manager = "ready"
    /\ templates' = Looked("get_scenario_by_type", scenario_type,
                           get_scenario_by_type(templates.db, scenario_type))
    /\ lastOp' = [op |-> "get_scenario_by_type"]
    /\ UNCHANGED <<sessVars, events, memVars, extVars, logVars, imgVars,
                   polling, auto_clients, writers, merge, calls>>

GetCharacterTemplate(character_type) ==
    /\ templates.manager = "ready"
    /\ templates' = Looked("get_character_template", character_type,
                           get_character_template(templates.db,
                                                  character_type))
    /\ lastOp' = [op |-> "get_character_template"]
    /\ UNCHANGED <<sessVars, events, memVars, extVars, logVars, imgVars,
                   polling, auto_clients, writers, merge, calls>>

GetEventTemplate(event_type) ==
    /\ templates.manager = "ready"
    /\ templates' = Looked("get_event_template", event_type,
                           get_event_template(templates.db, event_type))
    /\ lastOp' = [op |-> "get_event_template"]
    /\ UNCHANGED <<sessVars, events, memVars, extVars, logVars, imgVars,
                   polling, auto_clients, writers, merge, calls>>

-----------------------------------------------------------------------------
(* memory/vector_memory.py *)

ChunkSize == 500
RestoreLimit == 100

\* RecursiveCharacterTextSplitter.split_text: a text within chunk_size is
\* one chunk; a longer one is cut in pieces of at most chunk_size
RECURSIVE split_text(_)
split_text(text) ==
    IF Len(text) = 0 THEN <<>>
    ELSE IF Len(text) <= ChunkSize THEN <<text>>
    ELSE <<SubSeq(text, 1, ChunkSize)>>
         \o split_text(SubSeq(text, ChunkSize + 1, Len(text)))

\* _add_base_scenarios_to_store: the documents added for game g at time ts
BaseDocuments(g, data, ts) ==
    [i \in 1..Len(data) |->
        [content |-> data[i].content,
         metadata |-> [type |-> data[i].metadata.type,
                       id |-> data[i].metadata.id,
                       game_id |-> g, timestamp |-> ts,
                       source |-> "base_scenario"]]]

\* _initialize_game_vector_store, lines 85-95: one document per stored
\* MongoDB chat, holding the player input and the reply, with no timestamp
RestoredDocuments(g, chats) ==
    [i \in 1..Len(chats) |->
        [content |-> <<"user: ">> \o chats[i].user_input
                     \o <<"\nGM: ">> \o chats[i].ai_response,
         metadata |-> [type |-> "conversation", source |-> "restored_dialogue",
                       game_id |-> g,
                       sequence_number |-> chats[i].sequence_number]]]

\* _initialize_game_vector_store: the collection of game g after it.  An
\* existing non-empty collection is loaded as it is; an empty one receives
\* the base scenarios (from the cache, or from MongoDB when reachable) and
\* the conversations MongoDB holds.
InitializedCollection(g, coll, cache, chats, mongo_ok, ts) ==
    IF Len(coll) > 0 THEN coll
    ELSE (IF cache.loaded THEN BaseDocuments(g, cache.data, ts)
          ELSE IF mongo_ok
               THEN BaseDocuments(g, get_all_data_for_vectorization, ts)
               ELSE <<>>)
         \o (IF mongo_ok
             THEN RestoredDocuments(g, mongo_get_chat_history(chats, RestoreLimit))
             ELSE <<>>)

\* self.base_scenarios after _add_base_scenarios_to_store
LoadedBaseScenarios(coll, cache, mongo_ok) ==
    IF Len(coll) = 0 /\ ~cache.loaded /\ mongo_ok
    THEN [loaded |-> TRUE, data |-> get_all_data_for_vectorization]
    ELSE cache

\* add_scenario_data: the documents appended for `content`
NewDocuments(g, content, metadata, ts) ==
    LET chunks == split_text(content)
        md0 == IF "type" \in DOMAIN metadata THEN metadata
               ELSE Put(metadata, "type", "scenario")
        md == Put(Put(md0, "game_id", g), "timestamp", ts)
    IN [i \in 1..Len(chunks) |->
          [content |-> chunks[i], metadata |-> Put(md, "chunk_id", i - 1)]]

\* Chroma get(where={"type": "conversation"}) without the type filter
get_all_types(coll) == coll

\* Chroma get(where={"type": "conversation"}): the matching documents, in
\* the order in which the collection received them
RECURSIVE get_conversations(_)
get_conversations(coll) ==
    IF coll = <<>> THEN <<>>
    ELSE IF Head(coll).metadata.type = "conversation"
         THEN <<Head(coll)>> \o get_conversations(Tail(coll))
         ELSE get_conversations(Tail(coll))

\* Chroma similarity_search(query, k): k documents of the collection (all
\* of them when it holds fewer); which ones is the embedding's business,
\* here the k first
similarity_search(coll, k) ==
    IF Len(coll) > k THEN SubSeq(coll, 1, k) ELSE coll

-----------------------------------------------------------------------------
(* memory/game_memory.py *)

\* add_message that appends the AI message only
add_message_without_input(memories, g, human_input, ai_response) ==
    Put(memories, g,
        Get(memories, g, <<>>) \o <<[type |-> "ai", content |-> ai_response]>>)

\* TRPGMemoryManager.add_message: get_memory creates the game's memory when
\* it is missing, then the human and the AI message are appended
add_message(memories, g, human_input, ai_response) ==
    Put(memories, g,
        Get(memories, g, <<>>)
        \o <<[type |-> "human", content |-> human_input],
             [type |-> "ai", content |-> ai_response]>>)

\* TRPGMemoryManager.reset_game_memory
reset_game_memory(memories, g) ==
    IF g \in DOMAIN memories THEN Del(memories, g) ELSE memories

\* TRPGMemoryManager.get_memory_stats
memory_get_memory_stats(memories, g) ==
    IF g \notin DOMAIN memories THEN [exists |-> FALSE]
    ELSE [exists |-> TRUE, total_messages |-> Len(memories[g])]

\* SessionContextManager.set_context
set_context(ctx, g, key, value) ==
    Put(ctx, g, Put(Get(ctx, g, EmptyDict), key, value))

\* SessionContextManager.get_context(game_id, key): the lookup creates the
\* game's context when it is missing; this is the contexts after it
get_context_touch(ctx, g) ==
    IF g \notin DOMAIN ctx THEN Put(ctx, g, EmptyDict) ELSE ctx

\* VectorMemoryManager.get_memory_stats
vector_get_memory_stats(stores, coll, g) ==
    IF g \notin stores THEN [exists |-> FALSE, total_documents |-> 0]
    ELSE [exists |-> TRUE, total_documents |-> Len(coll)]

-----------------------------------------------------------------------------
(* agents/gamemaster.py: helpers *)

\* _deep_merge raises when a dict of the update meets a value of the
\* destination that is no dict (setdefault returns it, the recursive call
\* then fails on it), unless the dict of the update is empty
RECURSIVE MergeRaises(_, _)
MergeRaises(source, destination) ==
    \E k \in DOMAIN source :
        /\ source[k].t = "dict"
        /\ k \in DOMAIN destination
        /\ \/ (destination[k].t # "dict" /\ source[k].v # EmptyDict)
           \/ (destination[k].t = "dict"
               /\ MergeRaises(source[k].v, destination[k].v))

\* a merge that replaces a dict of the destination by the dict of source
_deep_merge_shallow(source, destination) ==
    [k \in DOMAIN destination \cup DOMAIN source |->
        IF k \in DOMAIN source THEN source[k] ELSE destination[k]]

\* _deep_merge(source, destination): the destination after the merge
RECURSIVE _deep_merge(_, _)
_deep_merge(source, destination) ==
    [k \in DOMAIN destination \cup DOMAIN source |->
        IF k \notin DOMAIN source THEN destination[k]
        ELSE IF source[k].t = "dict"
             THEN LET node == Get(destination, k, JDict(EmptyDict))
                  IN IF node.t = "dict"
                     THEN JDict(_deep_merge(source[k].v, node.v))
                     ELSE node
             ELSE source[k]]

AllowedFields ==
    {"name", "class", "level", "stats", "inventory", "avatar", "health"}

\* the error_responses of _handle_error, one of which random.choice picks
ErrorResponses == <<"retry", "other_action", "temporary">>

\* _handle_error answering success=True
_handle_error_as_success(error, choice, ts) ==
    [success |-> TRUE, message |-> ErrorResponses[choice],
     options |-> <<"retry", "status", "help">>, error |-> error,
     timestamp |-> ts]

\* _handle_error(error): `error` stands for the text of the exception, by
\* the step that raised it
_handle_error(error, choice, ts) ==
    [success |-> FALSE, message |-> ErrorResponses[choice],
     options |-> <<"retry", "status", "help">>, error |-> error,
     timestamp |-> ts]

\* the fallback response_data of lines 174-178 (empty LLM output)
EmptyFallback ==
    JDict([message |-> <<"cannot respond">>,
           options |-> <<"retry", "check">>, need_image |-> FALSE])

\* the fallback of lines 184-188 without its options
TextFallbackWithoutOptions(gm_response) ==
    JDict([message |-> gm_response, options |-> <<>>, need_image |-> FALSE])

\* the fallback response_data of lines 184-188 (output that is no JSON)
TextFallback(gm_response) ==
    JDict([message |-> gm_response,
           options |-> <<"continue", "check", "other">>,
           need_image |-> FALSE])

\* lines 169-195: the response_data parsed from the LLM output.  An output
\* is [raw |-> its text, parsed |-> what json.loads makes of it]
ParseResponse(gm_response) ==
    IF Strip(gm_response.raw) = <<>> THEN EmptyFallback
    ELSE IF gm_response.parsed.ok THEN gm_response.parsed.value
    ELSE TextFallback(gm_response.raw)

\* stable sort of <<key, item>> pairs by key = <<timestamp, sequence>>,
\* as list.sort(key=...) does
KeyLess(a, b) == a[1] < b[1] \/ (a[1] = b[1] /\ a[2] < b[2])

RECURSIVE InsertByKey(_, _)
InsertByKey(x, sorted) ==
    IF sorted = <<>> THEN <<x>>
    ELSE IF KeyLess(x.key, Head(sorted).key) THEN <<x>> \o sorted
    ELSE <<Head(sorted)>> \o InsertByKey(x, Tail(sorted))

RECURSIVE StableSort(_)
StableSort(s) ==
    IF s = <<>> THEN <<>>
    ELSE InsertByKey(s[Len(s)], StableSort(SubSeq(s, 1, Len(s) - 1)))

RECENT_LIMIT == 10
SearchK == 10

\* lines 112-129: all conversation documents of the game, oldest first
AllConversations(coll) ==
    LET docs == get_conversations(coll)
        entries == [i \in 1..Len(docs) |->
                      [key |-> <<Get(docs[i].metadata, "timestamp", 0),
                                 Get(docs[i].metadata, "sequence_number", 0)>>,
                       content |-> docs[i].content]]
    IN StableSort(entries)

Contents(entries) == [i \in 1..Len(entries) |-> entries[i].content]

\* lines 131-155: the chat_summary given to the LLM, as its parts
ChatSummary(all_conversations, relevant_context) ==
    LET total_count == Len(all_conversations)
    IN IF total_count > RECENT_LIMIT
       THEN (IF relevant_context # <<>>
             THEN <<[part |-> "old_by_vector_search",
                     texts |-> [i \in 1..Len(relevant_context) |->
                                   relevant_context[i].content]]>>
             ELSE <<>>)
            \o <<[part |-> "recent",
                  texts |-> Contents(SubSeq(all_conversations,
                                            total_count - RECENT_LIMIT + 1,
                                            total_count))]>>
       ELSE IF total_count > 0
            THEN <<[part |-> "all", texts |-> Contents(all_conversations)]>>
            ELSE <<>>

-----------------------------------------------------------------------------
(* agents/gamemaster.py: process_game_request *)

\* What the external services do during one request: the set of calls that
\* fail, the LLM output, and the error text random.choice picks.
Faults == {"chars_get", "init", "mongo", "search", "get", "llm", "patch",
           "death_llm", "store_user", "store_gm"}

Fails(e, f) == f \in e.faults

\* the character the game API returns for a PATCH: its first character
\* with the fields of the payload replaced
PatchedCharacter(chars, payload) ==
    [k \in DOMAIN chars[1] \cup DOMAIN payload |->
        IF k \in DOMAIN payload THEN payload[k] ELSE chars[1][k]]

\* _prepare_game_context, lines 295-317: the session contexts after it
prepare_game_context(ctx, g, characters, e) ==
    IF ~Fails(e, "chars_get") /\ characters # <<>>
    THEN set_context(ctx, g, "characters", characters)
    ELSE ctx

\* _update_character_info: [raised, char (<<>> is None, else <<char>>),
\* ctx, backend, patches]
_update_character_info(ctx, chars, sent, g, update_data, e) ==
    LET ctx2 == get_context_touch(ctx, g)
        all_characters == Get(ctx2[g], "characters", <<>>)
        none == [raised |-> FALSE, char |-> <<>>, ctx |-> ctx2,
                 backend |-> chars, patches |-> sent]
    IN IF all_characters = <<>> THEN none
       ELSE IF MergeRaises(update_data, all_characters[1])
       THEN [none EXCEPT !.raised = TRUE]
       ELSE
       LET merged_data == _deep_merge(update_data, all_characters[1])
           payload_to_send ==
               [f \in AllowedFields \cap DOMAIN update_data |-> merged_data[f]]
           request == [game_id |-> g, payload |-> payload_to_send]
       IN IF payload_to_send = EmptyDict THEN none
          ELSE IF Fails(e, "patch")
          THEN [none EXCEPT !.patches = Append(sent, request)]
          ELSE LET updated_char == PatchedCharacter(chars, payload_to_send)
               IN [raised |-> FALSE,
                   char |-> <<updated_char>>,
                   ctx |-> set_context(ctx2, g, "characters",
                              [all_characters EXCEPT ![1] = updated_char]),
                   backend |-> [chars EXCEPT ![1] = updated_char],
                   patches |-> Append(sent, request)]

\* _handle_character_death: the death response, also when the summary
\* call of the LLM fails (lines 450-460)
_handle_character_death(character, e, ts) ==
    IF Fails(e, "death_llm")
    THEN [success |-> TRUE, message |-> <<"fell">>, options |-> <<>>,
          need_image |-> FALSE, game_over |-> TRUE, timestamp |-> ts]
    ELSE [success |-> TRUE, message |-> <<"death summary">>, options |-> <<>>,
          need_image |-> FALSE, game_over |-> TRUE, character_death |-> TRUE,
          character_name |-> Get(character, "name", JNull), timestamp |-> ts]

\* an image_info built for every response
ImageInfoAlways(rd) ==
    <<[should_generate |-> TRUE,
       prompt |-> Get(rd, "image_prompt", <<"x">>),
       reason |-> "Scene visualization"]>>

\* lines 231-238
ImageInfo(rd) ==
    IF Get(rd, "need_image", FALSE) /\ Get(rd, "image_prompt", <<>>) # <<>>
    THEN <<[should_generate |-> TRUE, prompt |-> rd.image_prompt,
            reason |-> "Scene visualization"]>>
    ELSE <<>>

\* _add_user_input_to_vector_storage: the documents it adds
UserDocuments(g, user_input, e, ts) ==
    IF Fails(e, "store_user") THEN <<>>
    ELSE NewDocuments(g, <<"user: ">> \o user_input,
                      [type |-> "conversation", source |-> "user_input",
                       game_id |-> g, role |-> "user"], ts)

\* _add_ai_response_to_vector_storage adding nothing
AiDocumentsSkipped(g, ai_response, e, ts) == <<>>

\* _add_ai_response_to_vector_storage: the documents it adds
AiDocuments(g, ai_response, e, ts) ==
    IF Fails(e, "store_gm") THEN <<>>
    ELSE NewDocuments(g, <<"GM: ">> \o ai_response,
                      [type |-> "conversation", source |-> "ai_response",
                       game_id |-> g, role |-> "assistant"], ts)

\* process_game_request(game_id, user_input): the returned dict and the
\* state the call leaves, computed in the order of the code.  `kind` names
\* the return statement taken, `hit` the failures the call ran into,
\* `updated_char` what _update_character_info returned (<<>> is None).
process_game_request(g, user_input, e) ==
    LET t0 == now + 1
        t1 == t0 + 1
        ctx1 == prepare_game_context(session_contexts, g, backend[g], e)
        need_init == g \notin retrievers
        mongo_ok == ~Fails(e, "mongo")
        coll1 == IF need_init
                 THEN InitializedCollection(g, chroma[g], base_scenarios,
                                            chat_history[g], mongo_ok, t0)
                 ELSE chroma[g]
        cache1 == IF need_init
                  THEN LoadedBaseScenarios(chroma[g], base_scenarios, mongo_ok)
                  ELSE base_scenarios
        hit0 == e.faults \cap
                  ({"chars_get"} \cup (IF need_init THEN {"init"} ELSE {}))
        unchanged ==
            [kind |-> "error",
             result |-> _handle_error("vector store", e.err, t0),
             prompt |-> <<>>, hit |-> hit0, updated_char |-> <<>>,
             game_memories |-> game_memories, session_contexts |-> ctx1,
             vector_stores |-> vector_stores, retrievers |-> retrievers,
             base_scenarios |-> base_scenarios, collection |-> chroma[g],
             characters |-> backend[g], now |-> t0,
             llm_calls |-> llm_calls, patches |-> patches]
    IN
    IF need_init /\ Fails(e, "init") THEN unchanged
    ELSE
    LET relevant_context == IF Fails(e, "search") THEN <<>>
                            ELSE similarity_search(coll1, SearchK)
        all_conversations == IF Fails(e, "get") THEN <<>>
                             ELSE AllConversations(coll1)
        prompt == [chat_summary |->
                       ChatSummary(all_conversations, relevant_context),
                   user_input |-> user_input]
        hit1 == hit0 \cup (e.faults \cap {"search", "get", "llm"})
                     \cup (IF need_init /\ Len(chroma[g]) = 0
                           THEN e.faults \cap {"mongo"} ELSE {})
        loaded == [unchanged EXCEPT
                     !.result = _handle_error(IF Fails(e, "llm") THEN "llm"
                                              ELSE "response", e.err, t0),
                     !.prompt = <<prompt>>,
                     !.hit = hit1,
                     !.vector_stores = vector_stores \cup {g},
                     !.retrievers = retrievers \cup {g},
                     !.base_scenarios = cache1,
                     !.collection = coll1,
                     !.llm_calls = llm_calls + 1]
        response_data == ParseResponse(e.llm)
    IN
    IF Fails(e, "llm") \/ response_data.t # "dict" THEN loaded
    ELSE
    LET rd == response_data.v
        update_info == Get(rd, "update_character", JNull)
        updating == /\ "update_character" \in DOMAIN rd
                    /\ update_info.t = "dict"
                    /\ update_info.v # EmptyDict
        upd == IF updating
               THEN _update_character_info(ctx1, backend[g], patches, g,
                                           update_info.v, e)
               ELSE [raised |-> FALSE, char |-> <<>>, ctx |-> ctx1,
                     backend |-> backend[g], patches |-> patches]
        hit2 == hit1 \cup (IF upd.patches # patches
                           THEN e.faults \cap {"patch"} ELSE {})
        updated == [loaded EXCEPT !.session_contexts = upd.ctx,
                                  !.characters = upd.backend,
                                  !.patches = upd.patches,
                                  !.hit = hit2,
                                  !.updated_char = upd.char]
        dead == /\ upd.char # <<>>
                /\ upd.char[1] # EmptyDict
                /\ Get(upd.char[1], "health", JNum(1)).v <= 0
    IN
    IF upd.raised THEN updated
    ELSE IF "message" \notin DOMAIN rd THEN updated
    ELSE IF dead
    THEN [updated EXCEPT
            !.kind = "death",
            !.result = _handle_character_death(upd.char[1], e, t0),
            !.hit = hit2 \cup (e.faults \cap {"death_llm"}),
            !.llm_calls = llm_calls + 2]
    ELSE
    LET coll2 == coll1 \o UserDocuments(g, user_input, e, t0)
                       \o AiDocuments(g, rd.message, e, t1)
    IN [updated EXCEPT
          !.kind = "normal",
          !.result = [success |-> TRUE, message |-> rd.message,
                      options |-> Get(rd, "options", <<>>),
                      need_image |-> Get(rd, "need_image", FALSE),
                      image_info |-> ImageInfo(rd),
                      relevant_context_found |-> (relevant_context # <<>>),
                      timestamp |-> t1],
          !.hit = hit2 \cup (e.faults \cap {"store_user", "store_gm"}),
          !.game_memories =
              add_message(game_memories, g, user_input, rd.message),
          !.collection = coll2,
          !.now = t1]

-----------------------------------------------------------------------------
(* The environment of one request. *)

\* external calls that may fail during one request
MaxFaults == 1

Hero ==
    [name |-> JStr("hero"), health |-> JNum(10), maxHealth |-> JNum(10),
     stats |-> JDict([strength |-> JNum(5), wisdom |-> JNum(3)]),
     inventory |-> JList(<<"sword">>)]

NotJson == [ok |-> FALSE, value |-> JNull]
JsonOutput(d) == [raw |-> <<"{", "}">>, parsed |-> [ok |-> TRUE, value |-> JDict(d)]]

\* what the LLM may answer
LLMOutputs ==
    << [raw |-> <<>>, parsed |-> NotJson],
       [raw |-> <<" ">>, parsed |-> NotJson],
       [raw |-> RawText, parsed |-> NotJson],
       [raw |-> <<"[", "]">>, parsed |-> [ok |-> TRUE, value |-> JList(<<>>)]],
       JsonOutput([message |-> GmText, options |-> <<"a", "b">>,
                   need_image |-> FALSE]),
       JsonOutput([message |-> GmText, options |-> <<"a", "b">>,
                   need_image |-> TRUE, image_prompt |-> ImagePrompt]),
       JsonOutput([message |-> GmText, need_image |-> TRUE]),
       JsonOutput([message |-> GmText,
                   update_character |-> JDict([health |-> JNum(0)])]),
       JsonOutput([message |-> GmText,
                   update_character |-> JDict([health |-> JNum(7)])]),
       JsonOutput([update_character |-> JDict([health |-> JNum(0)])]),
       JsonOutput([message |-> GmText, update_character |-> JNull]),
       JsonOutput([message |-> GmText,
                   update_character |-> JDict([mood |-> JStr("grim")])]),
       JsonOutput([message |-> GmText, need_image |-> TRUE,
                   image_prompt |-> ImagePrompt,
                   update_character |-> JDict([health |-> JNum(0)])]),
       JsonOutput([message |-> GmText,
                   update_character |->
                       JDict([maxHealth |-> JDict([bonus |-> JNum(1)])])]),
       JsonOutput([message |-> GmText,
                   update_character |->
                       JDict([stats |-> JDict([strength |-> JNum(7)]),
                              mood |-> JStr("grim")])]) >>

\* the sets of calls that fail during one request
FaultSets == {X \in SUBSET Faults : Cardinality(X) <= MaxFaults}

\* the environment of one request
Env(F, i, c) == [faults |-> F, llm |-> LLMOutputs[i], err |-> c]

\* the outcomes of process_game_request when the calls in F fail and the
\* LLM gives its i-th answer: one, or one for each text _handle_error may
\* pick when it is the error response
Outcomes(g, user_input, F, i) ==
    LET r == process_game_request(g, user_input, Env(F, i, 1))
    IN IF r.kind = "error"
       THEN {process_game_request(g, user_input, Env(F, i, c)) :
                c \in DOMAIN ErrorResponses}
       ELSE {r}

\* the answer of the LLM that outcome r of a request has parsed: its index
\* in LLMOutputs, 0 when the request did not get as far or the call failed
Answer(r, i) == IF r.prompt # <<>> /\ "llm" \notin r.hit THEN i ELSE 0

\* the state a finished process_game_request leaves
Commit(g, r) ==
    /\ game_memories' = r.game_memories
    /\ session_contexts' = r.session_contexts
    /\ vector_stores' = r.vector_stores
    /\ retrievers' = r.retrievers
    /\ base_scenarios' = r.base_scenarios
    /\ chroma' = [chroma EXCEPT ![g] = r.collection]
    /\ backend' = [backend EXCEPT ![g] = r.characters]
    /\ now' = r.now
    /\ llm_calls' = r.llm_calls
    /\ patches' = r.patches
    /\ UNCHANGED chat_history

-----------------------------------------------------------------------------
(* app.py: the HTTP endpoints of the game master *)

ChatMessages == {<<>>, <<" ">>, UserText}

\* the JSON bodies a client may post to /api/chat: no JSON object, or an
\* object with or without a message and with or without the game_id of g1
ChatBodies ==
    {[json |-> FALSE, data |-> EmptyDict]}
    \cup {[json |-> TRUE, data |-> EmptyDict],
          [json |-> TRUE, data |-> [game_id |-> "g1"]]}
    \cup {[json |-> TRUE, data |-> [message |-> m]] : m \in ChatMessages}
    \cup {[json |-> TRUE, data |-> [message |-> m, game_id |-> "g1"]] :
            m \in ChatMessages}

\* the test of an empty message without strip()
BlankWithoutStrip(user_input) == user_input = <<>>

\* chat(), the rejection of an empty message of lines 344-348
BlankMessage(user_input) == Strip(user_input) = <<>>

\* POST /api/chat
Chat(body) ==
    /\ calls > 0
    /\ calls' = calls - 1
    /\ UNCHANGED <<sessVars, events, imgVars, auxVars>>
    /\ IF ~body.json
       THEN /\ lastOp' = [op |-> "chat", body |-> body, status |-> 500,
                          json |-> [success |-> FALSE], kind |-> "exception"]
            /\ UNCHANGED <<memVars, extVars, logVars>>
       ELSE LET user_input == Get(body.data, "message", <<>>)
                game_id == Get(body.data, "game_id", "default-game")
            IN IF BlankMessage(user_input)
               THEN /\ lastOp' = [op |-> "chat", body |-> body,
                                  status |-> 400, json |-> [success |-> FALSE],
                                  kind |-> "rejected"]
                    /\ UNCHANGED <<memVars, extVars, logVars>>
               ELSE \E F \in FaultSets, i \in DOMAIN LLMOutputs :
                    \E r \in Outcomes(game_id, user_input, F, i) :
                         /\ Commit(game_id, r)
                         /\ lastOp' = [op |-> "chat", body |-> body,
                                       status |-> 200, json |-> r.result,
                                       kind |-> r.kind, game_id |-> game_id,
                                       user_input |-> user_input,
                                       hit |-> r.hit, prompt |-> r.prompt,
                                       updated_char |-> r.updated_char,
                                       llm |-> Answer(r, i)]

\* LangChainGameMaster.get_memory_stats
get_memory_stats(g) ==
    LET langchain_stats == memory_get_memory_stats(game_memories, g)
        vector_stats == vector_get_memory_stats(vector_stores, chroma[g], g)
    IN [langchain_memory |-> langchain_stats, vector_memory |-> vector_stats,
        total_exists |-> (langchain_stats.exists \/ vector_stats.exists)]

\* LangChainGameMaster.reset_game without the reset of the vector memory
reset_keeps_vector_store(stores, g) == stores

\* VectorMemoryManager.reset_vector_memory, lines 252-255, on a key set
reset_vector_memory(stores, g) == stores \ {g}

\* POST /api/reset/<game_id>: LangChainGameMaster.reset_game.  Deleting the
\* Chroma collection may fail, which is only logged.
ResetGame(g) ==
    /\ calls > 0
    /\ calls' = calls - 1
    /\ game_memories' = reset_game_memory(game_memories, g)
    /\ session_contexts' = Del(session_contexts, g)
    /\ vector_stores' = reset_vector_memory(vector_stores, g)
    /\ retrievers' = reset_vector_memory(retrievers, g)
    /\ \E deleted \in BOOLEAN :
          chroma' = IF deleted THEN [chroma EXCEPT ![g] = <<>>] ELSE chroma
    /\ lastOp' = [op |-> "reset_game", game_id |-> g, status |-> 200,
                  json |-> [success |-> TRUE],
                  had |-> [memory |-> g \in DOMAIN game_memories,
                           context |-> g \in DOMAIN session_contexts,
                           store |-> g \in vector_stores,
                           retriever |-> g \in retrievers]]
    /\ UNCHANGED <<sessVars, events, imgVars, auxVars, base_scenarios,
                   chat_history,
                   backend, now, logVars>>

\* get_chat_history, lines 439-452: the history list built from the
\* documents Chroma returns
HistoryItems(g, docs) ==
    LET items == [i \in 1..Len(docs) |->
            [key |-> <<Get(docs[i].metadata, "timestamp", 0),
                       Get(docs[i].metadata, "sequence_number", i - 1)>>,
             content |-> docs[i].content,
             role |-> Get(docs[i].metadata, "role", "unknown"),
             timestamp |-> Get(docs[i].metadata, "timestamp", 0),
             sequence_number |-> Get(docs[i].metadata, "sequence_number", i - 1),
             game_id |-> Get(docs[i].metadata, "game_id", g)]]
    IN StableSort(items)

\* GET /api/history/<game_id>
GetChatHistory(g) ==
    /\ calls > 0
    /\ calls' = calls - 1
    /\ UNCHANGED <<sessVars, events, imgVars, auxVars, game_memories,
                   session_contexts,
                   chat_history, backend, logVars>>
    /\ \E F \in {X \in SUBSET {"init", "mongo", "get"} :
                    Cardinality(X) <= MaxFaults} :
         LET need_init == g \notin vector_stores
             t0 == now + 1
             coll1 == IF need_init
                      THEN InitializedCollection(g, chroma[g], base_scenarios,
                               chat_history[g], "mongo" \notin F, t0)
                      ELSE chroma[g]
         IN IF need_init /\ "init" \in F
            THEN /\ lastOp' = [op |-> "history", game_id |-> g, status |-> 500,
                               json |-> [success |-> FALSE]]
                 /\ now' = t0
                 /\ UNCHANGED <<vector_stores, retrievers, base_scenarios,
                                chroma>>
            ELSE /\ vector_stores' = vector_stores \cup {g}
                 /\ retrievers' = retrievers \cup {g}
                 /\ base_scenarios' =
                       IF need_init
                       THEN LoadedBaseScenarios(chroma[g], base_scenarios,
                                                "mongo" \notin F)
                       ELSE base_scenarios
                 /\ chroma' = [chroma EXCEPT ![g] = coll1]
                 /\ now' = t0
                 /\ LET history == IF "get" \in F THEN <<>>
                                   ELSE HistoryItems(g, get_conversations(coll1))
                    IN lastOp' = [op |-> "history", game_id |-> g,
                                  status |-> 200,
                                  json |-> [success |-> TRUE, game_id |-> g,
                                            history |-> history,
                                            total |-> Len(history)],
                                  failed |-> ("get" \in F)]

-----------------------------------------------------------------------------
(* app.py: GameNamespace.on_message and generate_image_async *)

\* the data of a 'message' event: a dict with a message, a dict without
\* one, or a bare string
MessageData ==
    << [dict |-> TRUE, data |-> [message |-> UserText]],
       [dict |-> TRUE, data |-> EmptyDict],
       [dict |-> FALSE, data |-> <<" ">>] >>

\* on_message, lines 509-512
MessageOf(data) ==
    IF data.dict THEN Get(data.data, "message", <<>>) ELSE data.data

\* on_message, lines 528-537: the game_response built from the result
GameResponse(g, result) ==
    [event |-> "game_response", namespace |-> Namespace(g),
     success |-> Get(result, "success", TRUE), game_id |-> g,
     message |-> Get(result, "message", <<>>),
     options |-> Get(result, "options", <<>>),
     need_image |-> Get(result, "need_image", FALSE),
     image_info |-> Get(result, "image_info", <<>>),
     timestamp |-> Get(result, "timestamp", 0)]

\* what ComfyUI does with a queued prompt
ComfyAnswers == {"unavailable", "rejected", "queued"}

\* ComfyUI is asked only when the image generation is requested
ComfyChoices(result) ==
    IF Get(result, "need_image", FALSE) THEN ComfyAnswers ELSE {"queued"}

\* generate_image_async starting two threads for a queued prompt
generate_image_async_twice(ths, evs, g, prompt, comfy, answer) ==
    IF comfy = NoneVal \/ answer # "queued" THEN ths
    ELSE ths \o <<[game_id |-> g, prompt |-> prompt, state |-> "polling",
                   started_after |-> Len(evs)],
                  [game_id |-> g, prompt |-> prompt, state |-> "polling",
                   started_after |-> Len(evs)]>>

\* generate_image_async up to thread.start(): the threads after it.  A
\* thread is started when the manager exists, the server answers and the
\* prompt is queued; it remembers how many events had been emitted then.
generate_image_async(ths, evs, g, prompt, comfy, answer) ==
    IF comfy = NoneVal \/ answer # "queued" THEN ths
    ELSE Append(ths, [game_id |-> g, prompt |-> prompt, state |-> "polling",
                      started_after |-> Len(evs)])

\* on_message, lines 548-551: whether the image generation is requested
WantsImage(result) ==
    /\ Get(result, "need_image", FALSE)
    /\ Get(result, "image_info", <<>>) # <<>>
    /\ result.image_info[1].prompt # <<>>

\* on_message with the image generation requested before the response is
\* emitted
start_then_emit(evs, ths, g, result, comfy, answer) ==
    LET ths1 == IF WantsImage(result)
                THEN generate_image_async(ths, evs, g,
                         result.image_info[1].prompt, comfy, answer)
                ELSE ths
    IN [events |-> Append(evs, GameResponse(g, result)), threads |-> ths1]

\* on_message, lines 543-551: the response is emitted, then the image
\* generation is requested
emit_then_start(evs, ths, g, result, comfy, answer) ==
    LET evs1 == Append(evs, GameResponse(g, result))
    IN [events |-> evs1,
        threads |-> IF WantsImage(result)
                    THEN generate_image_async(ths, evs1, g,
                             result.image_info[1].prompt, comfy, answer)
                    ELSE ths]

\* GameNamespace.on_message: a connected client sends a 'message' event
OnMessage(g, data) ==
    /\ calls > 0
    /\ g \in DOMAIN clients
    /\ clients[g] > 0
    /\ calls' = calls - 1
    /\ \E F \in FaultSets, i \in DOMAIN LLMOutputs :
       \E r \in Outcomes(g, MessageOf(data), F, i) :
       \E answer \in ComfyChoices(r.result) :
         LET out == emit_then_start(events, threads, g, r.result,
                                    comfy_manager, answer)
         IN /\ Commit(g, r)
            /\ events' = out.events
            /\ threads' = out.threads
            /\ lastOp' = [op |-> "on_message", game_id |-> g,
                          kind |-> r.kind, hit |-> r.hit,
                          json |-> r.result,
                          events_before |-> Len(events),
                          threads_before |-> Len(threads),
                          llm |-> Answer(r, i), answer |-> answer]
    /\ UNCHANGED <<sessVars, comfy_manager, auxVars>>

\* what a poll of wait_and_send finds: the job's images, a finished job
\* without images, or a job still missing when the 300 seconds are over
PollResults == {"images", "no_images", "timeout"}

\* what add_scenario_data does with the image document: it is added, or
\* the vector store cannot be opened, or the store refuses the document
StoreResults == {"stored", "init_failed", "add_failed"}

\* wait_and_send: the polling thread i ends.  With images it emits
\* 'game_image' and stores the image as a conversation document, which may
\* fail and is then only logged.
ImageThread(i) ==
    /\ i \in DOMAIN threads
    /\ threads[i].state = "polling"
    /\ \E found \in PollResults, stored \in StoreResults :
         LET g == threads[i].game_id
             t0 == now + 1
             need_init == g \notin vector_stores
             coll1 == IF need_init
                      THEN InitializedCollection(g, chroma[g], base_scenarios,
                                                 chat_history[g], TRUE, t0)
                      ELSE chroma[g]
             docs == NewDocuments(g, <<"image: ">> \o threads[i].prompt,
                        [type |-> "conversation", role |-> "assistant",
                         source |-> "generated_image", game_id |-> g,
                         image_url |-> "url", prompt |-> threads[i].prompt],
                        t0)
         IN /\ threads' = [threads EXCEPT ![i].state = found]
            /\ IF found = "images"
               THEN /\ events' = Append(events,
                          [event |-> "game_image", namespace |-> Namespace(g),
                           success |-> TRUE, game_id |-> g,
                           prompt |-> threads[i].prompt, thread |-> i])
                    /\ now' = t0
                    /\ IF stored # "init_failed"
                       THEN /\ chroma' = [chroma EXCEPT ![g] =
                                   IF stored = "stored" THEN coll1 \o docs
                                   ELSE coll1]
                            /\ vector_stores' = vector_stores \cup {g}
                            /\ retrievers' = retrievers \cup {g}
                            /\ base_scenarios' =
                                 IF need_init
                                 THEN LoadedBaseScenarios(chroma[g],
                                          base_scenarios, TRUE)
                                 ELSE base_scenarios
                       ELSE UNCHANGED <<chroma, vector_stores, retrievers,
                                        base_scenarios>>
               ELSE UNCHANGED <<events, now, chroma, vector_stores,
                                retrievers, base_scenarios>>
            /\ lastOp' = [op |-> "image_thread", thread |-> i,
                          found |-> found]
    /\ UNCHANGED <<sessVars, game_memories, session_contexts, chat_history,
                   backend, logVars, calls, comfy_manager, auxVars>>

-----------------------------------------------------------------------------
(* app.py: wait_and_send, one iteration of its loop at a time.  polling[i] *)
(* is time.time() - start_time of thread i, in seconds.                    *)

max_wait == 300
SleepSeconds == 2

\* what a history query finds: no entry for the job yet, or the entry with
\* `listed` images of which `saved` could be downloaded and saved, or an
\* exception on the way (a reply that is no JSON, a file that cannot be
\* written), which ends the thread
HistoryAnswers ==
    {[present |-> FALSE, listed |-> 0, saved |-> 0, raised |-> FALSE]}
    \cup {[present |-> TRUE, listed |-> n, saved |-> m, raised |-> FALSE] :
             n \in 0..MaxImages, m \in 0..MaxImages}
    \cup {[present |-> TRUE, listed |-> 1, saved |-> 0, raised |-> TRUE]}

\* no entry for the job yet
Absent == [present |-> FALSE, listed |-> 0, saved |-> 0, raised |-> FALSE]

\* the loop test of wait_and_send fails
TimedOut(elapsed) == ~(elapsed < max_wait)

\* a loop that sleeps without the clock going on
WithoutSleep(elapsed, d) == elapsed

\* the time the thread has waited after a query of d seconds and the sleep
AfterSleep(elapsed, d) == elapsed + d + SleepSeconds

\* a game_image event is emitted whatever was saved
EmitAlways(image_urls) == TRUE

\* `if image_urls:`
ShouldEmit(image_urls) == image_urls # <<>>

\* generate_image_async(game_id, prompt) is called
RequestImage(g) ==
    /\ calls > 0
    /\ calls' = calls - 1
    /\ \E answer \in ComfyAnswers :
         /\ threads' = generate_image_async(threads, events, g, ImagePrompt,
                                            comfy_manager, answer)
         /\ polling' = IF Len(threads') > Len(threads)
                       THEN Append(polling, 0) ELSE polling
         /\ lastOp' = [op |-> "generate_image_async", game_id |-> g,
                       answer |-> answer]
    /\ UNCHANGED <<sessVars, events, memVars, extVars, logVars,
                   comfy_manager, auto_clients, writers, merge, templates>>

\* one iteration of the loop of thread i, in which the history query (when
\* the loop test lets it be made) finds h
Poll(i, h) ==
    /\ i \in DOMAIN threads
    /\ threads[i].state = "polling"
    /\ UNCHANGED <<sessVars, game_memories, session_contexts, chat_history,
                   backend, logVars, calls, comfy_manager, auto_clients,
                   writers, merge, templates>>
    /\ IF TimedOut(polling[i])
       THEN /\ threads' = [threads EXCEPT ![i].state = "timeout"]
            /\ lastOp' = [op |-> "poll", thread |-> i, queried |-> FALSE,
                          found |-> FALSE]
            /\ UNCHANGED <<polling, events, now, chroma, vector_stores,
                           retrievers, base_scenarios>>
       ELSE IF h.raised
       THEN /\ threads' = [threads EXCEPT ![i].state = "died"]
            /\ lastOp' = [op |-> "poll", thread |-> i, queried |-> TRUE,
                          found |-> h.present]
            /\ UNCHANGED <<polling, events, now, chroma, vector_stores,
                           retrievers, base_scenarios>>
       ELSE IF ~h.present
       THEN /\ \E d \in 0..MaxQuerySeconds :
                  polling' = [polling EXCEPT ![i] = AfterSleep(@, d)]
            /\ lastOp' = [op |-> "poll", thread |-> i, queried |-> TRUE,
                          found |-> h.present]
            /\ UNCHANGED <<threads, events, now, chroma, vector_stores,
                           retrievers, base_scenarios>>
       ELSE
       LET g == threads[i].game_id
           t0 == now + 1
           image_urls == [k \in 1..(IF h.saved < h.listed THEN h.saved
                                    ELSE h.listed) |-> "url"]
           need_init == g \notin vector_stores
           coll1 == IF need_init
                    THEN InitializedCollection(g, chroma[g], base_scenarios,
                                               chat_history[g], TRUE, t0)
                    ELSE chroma[g]
           docs == NewDocuments(g, <<"image: ">> \o threads[i].prompt,
                      [type |-> "conversation", role |-> "assistant",
                       source |-> "generated_image", game_id |-> g,
                       image_url |-> "url", prompt |-> threads[i].prompt],
                      t0)
       IN /\ lastOp' = [op |-> "poll", thread |-> i, queried |-> TRUE,
                        found |-> h.present]
          /\ UNCHANGED polling
          /\ IF ShouldEmit(image_urls)
             THEN /\ threads' = [threads EXCEPT ![i].state = "images"]
                  /\ events' = Append(events,
                        [event |-> "game_image", namespace |-> Namespace(g),
                         success |-> TRUE, game_id |-> g,
                         prompt |-> threads[i].prompt,
                         image_urls |-> image_urls, thread |-> i])
                  /\ now' = t0
                  /\ \E stored \in StoreResults :
                       IF stored # "init_failed"
                       THEN /\ chroma' = [chroma EXCEPT ![g] =
                                   IF stored = "stored" THEN coll1 \o docs
                                   ELSE coll1]
                            /\ vector_stores' = vector_stores \cup {g}
                            /\ retrievers' = retrievers \cup {g}
                            /\ base_scenarios' =
                                 IF need_init
                                 THEN LoadedBaseScenarios(chroma[g],
                                          base_scenarios, TRUE)
                                 ELSE base_scenarios
                       ELSE UNCHANGED <<chroma, vector_stores, retrievers,
                                        base_scenarios>>
             ELSE /\ threads' = [threads EXCEPT ![i].state = "no_images"]
                  /\ UNCHANGED <<events, now, chroma, vector_stores,
                                 retrievers, base_scenarios>>

-----------------------------------------------------------------------------
(* test_ws_server.py: the test WebSocket server.  Its game_sessions, its    *)
(* registered namespaces and its emitted events are the variables of the   *)
(* same names; auto_clients[g] is "connecting" while the thread            *)
(* auto_connect_external of game g runs, "connected" once the thread has   *)
(* stored the client in the dict auto_clients, "failed" when it gave up.   *)

\* create_session of the test server: [status, json, sessions, namespaces]
test_create_session(body, sessions, nss) ==
    IF ~body.json
    THEN [status |-> 500, json |-> [success |-> FALSE, error |-> "exception"],
          sessions |-> sessions, namespaces |-> nss]
    ELSE LET game_id == Get(body.data, "game_id", NoneVal)
             session_id == Get(body.data, "session_id", NoneVal)
         IN IF ~Truthy(game_id)
            THEN [status |-> 400,
                  json |-> [success |-> FALSE, error |-> "game_id required"],
                  sessions |-> sessions, namespaces |-> nss]
            ELSE IF ~Truthy(session_id)
            THEN [status |-> 400,
                  json |-> [success |-> FALSE, error |-> "session_id required"],
                  sessions |-> sessions, namespaces |-> nss]
            ELSE IF game_id \in DOMAIN sessions
            THEN [status |-> 200,
                  json |-> [success |-> TRUE, game_id |-> game_id,
                            websocket_namespace |-> Namespace(game_id),
                            status |-> "already_exists"],
                  sessions |-> sessions, namespaces |-> nss]
            ELSE [status |-> 200,
                  json |-> [success |-> TRUE, game_id |-> game_id,
                            session_id |-> session_id,
                            websocket_namespace |-> Namespace(game_id),
                            auto_client |-> "connecting"],
                  sessions |-> Put(sessions, game_id,
                                   [session_id |-> session_id, active |-> TRUE,
                                    connection_count |-> 0]),
                  namespaces |-> Append(nss, Namespace(game_id))]

\* POST /api/session/create of the test server; a new session starts the
\* thread auto_connect_external
TestCreateSession(body) ==
    /\ calls > 0
    /\ calls' = calls - 1
    /\ LET r == test_create_session(body, game_sessions, namespaces)
       IN /\ game_sessions' = r.sessions
          /\ namespaces' = r.namespaces
          /\ clients' = [g \in DOMAIN r.sessions |-> Get(clients, g, 0)]
          /\ auto_clients' =
                [g \in DOMAIN r.sessions |-> Get(auto_clients, g, "connecting")]
          /\ lastOp' = [op |-> "test_create_session", body |-> body,
                        status |-> r.status, json |-> r.json,
                        before |-> game_sessions, nsBefore |-> namespaces]
    /\ UNCHANGED <<events, memVars, extVars, logVars, imgVars, polling,
                   writers, merge, templates>>

\* auto_connect_external: the thread connects the internal client to the
\* external server, or fails to and logs it
AutoConnect(g) ==
    /\ g \in DOMAIN auto_clients
    /\ auto_clients[g] = "connecting"
    /\ \E connected \in BOOLEAN :
          auto_clients' = [auto_clients EXCEPT ![g] =
                              IF connected THEN "connected" ELSE "failed"]
    /\ lastOp' = [op |-> "auto_connect", game_id |-> g]
    /\ UNCHANGED <<sessVars, events, memVars, extVars, logVars, imgVars,
                   polling, writers, calls, merge, templates>>

\* on_response of the internal client: a game_response of the external
\* server is sent on to the local namespace
Relay(g) ==
    /\ calls > 0
    /\ calls' = calls - 1
    /\ g \in DOMAIN auto_clients
    /\ auto_clients[g] = "connected"
    /\ events' = Append(events, [event |-> "game_response",
                                 namespace |-> Namespace(g),
                                 from |-> "external"])
    /\ lastOp' = [op |-> "relay", game_id |-> g]
    /\ UNCHANGED <<sessVars, memVars, extVars, logVars, imgVars, auxVars>>

\* GameNamespace.on_connect of the test server
TestOnConnect(g) ==
    /\ calls > 0
    /\ calls' = calls - 1
    /\ Namespace(g) \in {namespaces[i] : i \in DOMAIN namespaces}
    /\ clients[g] < MaxConn
    /\ clients' = [clients EXCEPT ![g] = @ + 1]
    /\ game_sessions' =
         IF g \in DOMAIN game_sessions
         THEN [game_sessions EXCEPT ![g].connection_count = @ + 1]
         ELSE game_sessions
    /\ events' = Append(events, [event |-> "status", namespace |-> Namespace(g)])
    /\ lastOp' = [op |-> "test_on_connect", game_id |-> g]
    /\ UNCHANGED <<namespaces, memVars, extVars, logVars, imgVars, auxVars>>

\* GameNamespace.on_disconnect of the test server
TestOnDisconnect(g) ==
    /\ Namespace(g) \in {namespaces[i] : i \in DOMAIN namespaces}
    /\ clients[g] > 0
    /\ clients' = [clients EXCEPT ![g] = @ - 1]
    /\ game_sessions' =
         IF g \in DOMAIN game_sessions
         THEN [game_sessions EXCEPT ![g].connection_count = @ - 1]
         ELSE game_sessions
    /\ lastOp' = [op |-> "test_on_disconnect", game_id |-> g]
    /\ UNCHANGED <<namespaces, events, memVars, extVars, logVars, imgVars,
                   auxVars, calls>>

\* GameNamespace.on_message of the test server: the message is echoed
TestOnMessage(g, data) ==
    /\ calls > 0
    /\ calls' = calls - 1
    /\ g \in DOMAIN clients
    /\ clients[g] > 0
    /\ events' = Append(events, [event |-> "game_response",
                                 namespace |-> Namespace(g), success |-> TRUE,
                                 game_id |-> g, echo |-> MessageOf(data)])
    /\ lastOp' = [op |-> "test_on_message", game_id |-> g]
    /\ UNCHANGED <<sessVars, memVars, extVars, logVars, imgVars, auxVars>>

-----------------------------------------------------------------------------
(* Initial states and specifications *)

\* the turns 1..k of an earlier run as the documents process_game_request
\* stored for them: the input at time 2i, the reply at time 2i + 1
RECURSIVE PriorTurns(_, _)
PriorTurns(g, k) ==
    IF k = 0 THEN <<>>
    ELSE PriorTurns(g, k - 1)
         \o UserDocuments(g, Append(UserText, ToString(k)),
                          [faults |-> {}], 2 * k)
         \o AiDocuments(g, Append(GmText, ToString(k)),
                        [faults |-> {}], 2 * k + 1)

\* a Chroma collection persisted by an earlier run of the service: the base
\* scenarios added at time 1 and k turns of dialogue
PriorCollection(g, k) ==
    BaseDocuments(g, get_all_data_for_vectorization, 1) \o PriorTurns(g, k)

\* n chats stored in MongoDB, not in the order of their sequence numbers
RECURSIVE StoredChats(_, _)
StoredChats(g, n) ==
    IF n = 0 THEN <<>> ELSE <<ChatMessage(g, n)>> \o StoredChats(g, n - 1)

\* the process state right after start-up
InitProcess ==
    /\ game_sessions = EmptyDict
    /\ namespaces = <<>>
    /\ clients = EmptyDict
    /\ events = <<>>
    /\ game_memories = EmptyDict
    /\ session_contexts = EmptyDict
    /\ vector_stores = {}
    /\ retrievers = {}
    /\ base_scenarios = [loaded |-> FALSE, data |-> <<>>]
    /\ backend = [g \in Games |-> IF g = "g1" THEN <<Hero>> ELSE <<>>]
    /\ llm_calls = 0
    /\ patches = <<>>
    /\ threads = <<>>
    /\ polling = <<>>
    /\ auto_clients = EmptyDict
    /\ lastOp = [op |-> "init"]

\* nothing persisted by an earlier run
InitFresh ==
    /\ chroma = [g \in Games |-> <<>>]
    /\ chat_history = [g \in Games |-> <<>>]
    /\ now = 0

\* game g1 with what an earlier run left: an empty collection and up to
\* MaxRestored chats in MongoDB, or a collection with up to MaxPriorTurns
\* turns
InitPersisted ==
    \/ \E n \in 0..MaxRestored :
         /\ chroma = [g \in Games |-> <<>>]
         /\ chat_history =
              [g \in Games |-> IF g = "g1" THEN StoredChats(g, n) ELSE <<>>]
         /\ now = 0
    \/ \E k \in 0..MaxPriorTurns :
         /\ chroma = [g \in Games |->
                        IF g = "g1" THEN PriorCollection(g, k) ELSE <<>>]
         /\ chat_history = [g \in Games |-> <<>>]
         /\ now = 2 * k + 1

InitSession ==
    /\ InitProcess
    /\ InitFresh
    /\ comfy_manager = "ready"
    /\ writers = <<>>
    /\ merge = NoMerge
    /\ templates = NoTemplates
    /\ calls = MaxCalls

NextSession ==
    \/ \E body \in SessionBodies : CreateSession(body)
    \/ \E g \in Games : OnConnect(g)
    \/ \E g \in Games : OnDisconnect(g)

SpecSession == InitSession /\ [][NextSession]_vars

InitGM ==
    /\ InitProcess
    /\ InitPersisted
    /\ comfy_manager = "ready"
    /\ writers = <<>>
    /\ merge = NoMerge
    /\ templates = NoTemplates
    /\ calls = MaxChatCalls

NextGM ==
    \/ \E body \in ChatBodies : Chat(body)
    \/ \E g \in Games : ResetGame(g)
    \/ \E g \in Games : GetChatHistory(g)

SpecGM == InitGM /\ [][NextGM]_vars

\* the service with or without a ComfyUI server at start-up; the budget
\* covers the registration, the connection and MaxMessages messages
InitWS ==
    /\ InitProcess
    /\ InitFresh
    /\ comfy_manager \in {"ready", NoneVal}
    /\ writers = <<>>
    /\ merge = NoMerge
    /\ templates = NoTemplates
    /\ calls = MaxMessages + 2

NextWS ==
    \/ \E g \in Games : CreateSession([json |-> TRUE, data |-> [game_id |-> g]])
    \/ \E g \in Games : OnConnect(g)
    \/ \E g \in Games, d \in DOMAIN MessageData : OnMessage(g, MessageData[d])
    \/ \E i \in 1..MaxMessages : ImageThread(i)

SpecWS == InitWS /\ [][NextWS]_vars

\* the test server: sessions, connections, echoed and relayed messages
InitTest ==
    /\ InitProcess
    /\ InitFresh
    /\ comfy_manager = NoneVal
    /\ writers = <<>>
    /\ merge = NoMerge
    /\ templates = NoTemplates
    /\ calls = MaxCalls

NextTest ==
    \/ \E body \in SessionBodies : TestCreateSession(body)
    \/ \E g \in Games : AutoConnect(g)
    \/ \E g \in Games : Relay(g)
    \/ \E g \in Games : TestOnConnect(g)
    \/ \E g \in Games : TestOnDisconnect(g)
    \/ \E g \in Games, d \in DOMAIN MessageData :
          TestOnMessage(g, MessageData[d])

SpecTest == InitTest /\ [][NextTest]_vars

\* the image jobs of up to MaxJobs requests and their polling threads
InitPoll ==
    /\ InitProcess
    /\ InitFresh
    /\ comfy_manager \in {"ready", NoneVal}
    /\ writers = <<>>
    /\ merge = NoMerge
    /\ templates = NoTemplates
    /\ calls = MaxJobs

NextPoll ==
    \/ \E g \in Games : RequestImage(g)
    \/ \E i \in 1..MaxJobs, h \in HistoryAnswers : Poll(i, h)

SpecPoll == InitPoll /\ [][NextPoll]_vars

\* a started thread runs: it makes its next iteration, whatever ComfyUI
\* answers; no answer of ComfyUI is forced
FairSpecPoll ==
    SpecPoll /\ \A i \in 1..MaxJobs : WF_vars(Poll(i, Absent))

\* MaxWriters concurrent callers of add_chat_message, on a chat_history
\* that holds up to MaxRestored messages of g1
InitMongo ==
    /\ InitProcess
    /\ \E n \in 0..MaxRestored :
          chat_history =
              [g \in Games |-> IF g = "g1" THEN StoredChats(g, n) ELSE <<>>]
    /\ chroma = [g \in Games |-> <<>>]
    /\ now = 0
    /\ comfy_manager = NoneVal
    /\ writers = [w \in 1..MaxWriters |-> IdleWriter]
    /\ merge = NoMerge
    /\ templates = NoTemplates
    /\ calls = 0

NextMongo ==
    \/ \E w \in 1..MaxWriters, g \in Games : CallAddChatMessage(w, g)
    \/ \E w \in 1..MaxWriters : FindMax(w)
    \/ \E w \in 1..MaxWriters : InsertOne(w)
    \/ \E w \in 1..MaxWriters : RequestFails(w)

SpecMongo == InitMongo /\ [][NextMongo]_vars

\* the callers are threads that the scheduler lets run: a caller whose
\* request the server answers gets its answer
FairSpecMongo ==
    /\ SpecMongo
    /\ \A w \in 1..MaxWriters :
          WF_vars(FindMax(w)) /\ WF_vars(InsertOne(w))

-----------------------------------------------------------------------------
(* _deep_merge on its own: every pair of dictionaries of a bounded set *)

\* nesting depth of the dictionaries handed to _deep_merge
MaxDepth == 2

\* a scalar and two lists
Leaves == <<JNum(1), JList(<<"x">>), JList(<<"y">>)>>

\* The dictionaries over the keys "a" and "b" nested up to `depth` levels
\* are numbered: a dictionary is a pair of digits, one for each key, where
\* digit 0 is the missing key, the next digits are the Leaves and the
\* digits after these the dictionaries of the level below.
RECURSIVE NumDicts(_)
NumDicts(depth) ==
    LET digits == 1 + Len(Leaves)
                    + (IF depth <= 1 THEN 0 ELSE NumDicts(depth - 1))
    IN digits * digits

RECURSIVE JsonDict(_, _)
JsonDict(depth, n) ==
    LET digits == 1 + Len(Leaves)
                    + (IF depth <= 1 THEN 0 ELSE NumDicts(depth - 1))
        digit == [a |-> n % digits, b |-> n \div digits]
        value(c) == IF c <= Len(Leaves) THEN Leaves[c]
                    ELSE JDict(JsonDict(depth - 1, c - Len(Leaves) - 1))
    IN [k \in {x \in {"a", "b"} : digit[x] # 0} |-> value(digit[k])]

\* _deep_merge(source, destination) runs: it returns the destination it
\* has merged into, or the exception leaves it
DeepMerge ==
    /\ merge.state = "called"
    /\ merge' = IF MergeRaises(merge.source, merge.destination)
                THEN [state |-> "raised", source |-> merge.source,
                      destination |-> merge.destination]
                ELSE [state |-> "returned", source |-> merge.source,
                      destination |-> merge.destination,
                      result |-> _deep_merge(merge.source,
                                             merge.destination)]
    /\ lastOp' = [op |-> "_deep_merge"]
    /\ UNCHANGED <<sessVars, events, memVars, extVars, logVars, imgVars,
                   polling, auto_clients, writers, templates, calls>>

InitMerge ==
    /\ InitProcess
    /\ InitFresh
    /\ comfy_manager = NoneVal
    /\ writers = <<>>
    /\ templates = NoTemplates
    /\ calls = 0
    /\ \E m, n \in 0..(NumDicts(MaxDepth) - 1) :
          merge = [state |-> "called", source |-> JsonDict(MaxDepth, m),
                   destination |-> JsonDict(MaxDepth, n)]

NextMerge == DeepMerge

SpecMerge == InitMerge /\ [][NextMerge]_vars

-----------------------------------------------------------------------------
(* The template lookups on a database that only this program writes *)

InitTemplates ==
    /\ InitProcess
    /\ InitFresh
    /\ comfy_manager = NoneVal
    /\ writers = <<>>
    /\ merge = NoMerge
    /\ calls = 0
    /\ templates = [manager |-> "down", db |-> EmptyDatabase,
                    lookup |-> NoLookup]

NextTemplates ==
    \/ \E fail \in 0..Len(TemplateCollections) :
       \E stored \in 0..Len(DefaultKeys[TemplateCollections[1]]) :
          StartManager(fail, stored)
    \/ \E scenario_type \in ScenarioTypes : GetScenarioByType(scenario_type)
    \/ \E character_type \in CharacterTypes :
          GetCharacterTemplate(character_type)
    \/ \E event_type \in EventTypes : GetEventTemplate(event_type)

SpecTemplates == InitTemplates /\ [][NextTemplates]_vars

-----------------------------------------------------------------------------
(* Properties of session registration (SpecSession) *)

\* the game_id of a create_session request, NoneVal when it has none
RequestedGame(body) ==
    IF body.json THEN Get(body.data, "game_id", NoneVal) ELSE NoneVal

\* how often namespace ns has been registered
Registrations(ns) ==
    Cardinality({i \in DOMAIN namespaces : namespaces[i] = ns})

\* C6: POST /api/session/create registers the session and answers success
\* with websocket_namespace '/game/<game_id>' exactly when the request has
\* a non-empty game_id; a request without game_id is answered 400 and
\* leaves game_sessions and the registered namespaces as they were.
C6_CreateSessionIffGameId ==
    lastOp.op = "create_session" =>
        LET game_id == RequestedGame(lastOp.body)
            answered ==
                /\ lastOp.status = 200
                /\ lastOp.json.success
                /\ lastOp.json.websocket_namespace = Namespace(game_id)
                /\ game_id \in DOMAIN game_sessions
                /\ Registrations(Namespace(game_id)) = 1
        IN /\ Truthy(game_id) <=> answered
           /\ ~Truthy(game_id) =>
                /\ lastOp.status = 400
                /\ game_sessions = lastOp.before
                /\ namespaces = lastOp.nsBefore

\* the request C6 fails on: a body that is no JSON object has no game_id,
\* and is answered 500
C6_NoJsonBodyAnswered500 ==
    /\ lastOp.op = "create_session"
    /\ ~lastOp.body.json
    /\ lastOp.status = 500

\* C7: create_session for a game_id that has a session changes nothing:
\* game_sessions (session_id, active, connection_count) and the registered
\* namespaces stay as they were, the namespace is registered once, and the
\* answer is 'already_exists' with the namespace '/game/<game_id>' that the
\* first call answered.
C7_ExistingSessionUnchanged ==
    (lastOp.op = "create_session" /\ lastOp.existed) =>
        LET game_id == RequestedGame(lastOp.body)
        IN /\ game_sessions = lastOp.before
           /\ namespaces = lastOp.nsBefore
           /\ Registrations(Namespace(game_id)) = 1
           /\ lastOp.status = 200
           /\ lastOp.json.success
           /\ lastOp.json.status = "already_exists"
           /\ lastOp.json.websocket_namespace = Namespace(game_id)

\* a second create_session, without session_id, for a game registered with
\* session_id s1 to which a client has connected since
C7_SecondCallSeen ==
    /\ lastOp.op = "create_session"
    /\ lastOp.existed
    /\ "session_id" \notin DOMAIN lastOp.body.data
    /\ game_sessions[RequestedGame(lastOp.body)].session_id = "s1"
    /\ game_sessions[RequestedGame(lastOp.body)].connection_count = 1

-----------------------------------------------------------------------------
(* Properties of the test server (SpecTest) *)

\* the last request was a create_session of the test server whose body
\* is a JSON object with a game_id and nothing else
OnlyGameIdPosted ==
    /\ lastOp.op = "test_create_session"
    /\ lastOp.body.json
    /\ DOMAIN lastOp.body.data = {"game_id"}
    /\ Truthy(lastOp.body.data.game_id)

\* C12 as stated: POST /api/session/create of the test server with a body
\* that holds only game_id creates the session and answers with its
\* websocket_namespace '/game/<game_id>'.
C12_GameIdAloneCreatesSession ==
    OnlyGameIdPosted =>
        /\ lastOp.status = 200
        /\ lastOp.json.success
        /\ lastOp.json.websocket_namespace
              = Namespace(lastOp.body.data.game_id)
        /\ lastOp.body.data.game_id \in DOMAIN game_sessions

\* the request C12 fails on: game_id alone is answered 400 and no session
\* is registered
C12_GameIdAloneAnswered400 ==
    /\ OnlyGameIdPosted
    /\ lastOp.status = 400
    /\ lastOp.json.error = "session_id required"
    /\ lastOp.body.data.game_id \notin DOMAIN game_sessions
    /\ namespaces = lastOp.nsBefore

-----------------------------------------------------------------------------
(* Properties of the polling threads (SpecPoll, FairSpecPoll) *)

\* thread i has been started and has ended
Ended(i) == i \in DOMAIN threads /\ threads[i].state # "polling"

\* C15: every polling thread terminates.  It stops in the iteration whose
\* query finds the job's history entry, with or without images, and in the
\* first iteration that starts when max_wait seconds have passed; an
\* iteration that finds no entry sleeps SleepSeconds seconds before the
\* next query; a thread that has ended makes no further query.
C15_PollingThreadTerminates ==
    /\ \A i \in 1..MaxJobs : (i \in DOMAIN threads) ~> Ended(i)
    /\ [][lastOp'.op = "poll" =>
            LET i == lastOp'.thread
            IN /\ ~Ended(i)
               /\ lastOp'.queried <=> polling[i] < max_wait
               /\ (lastOp'.queried /\ lastOp'.found) =>
                     threads'[i].state # "polling"
               /\ (lastOp'.queried /\ ~lastOp'.found
                   /\ threads'[i].state = "polling") =>
                     polling'[i] >= polling[i] + SleepSeconds
               /\ ~lastOp'.queried => threads'[i].state = "timeout"]_vars
    /\ [][\A i \in DOMAIN threads :
            Ended(i) => (threads'[i] = threads[i]
                         /\ polling'[i] = polling[i])]_vars

\* a thread has given up after it found no entry for max_wait seconds
C15_GaveUpAfterMaxWait ==
    /\ Len(threads) = 1
    /\ threads[1].state = "timeout"
    /\ polling[1] >= max_wait
    /\ lastOp.op = "poll"
    /\ ~lastOp.queried

\* the game_image events of thread i
ImagesOf(i) ==
    {j \in DOMAIN events :
        events[j].event = "game_image" /\ events[j].thread = i}

\* C16: at most one 'game_image' event is emitted for a queued image job,
\* and only by a thread that saved at least one image: its image_urls are
\* not empty and it is sent on the namespace '/game/<game_id>' of the game
\* that requested the image.  No 'game_image' is emitted for a job that
\* timed out or finished without images, nor when queue_prompt failed.
C16_OneImageEventPerJob ==
    /\ [](/\ \A j \in DOMAIN events :
               events[j].event = "game_image" =>
                   /\ events[j].thread \in DOMAIN threads
                   /\ threads[events[j].thread].state = "images"
                   /\ events[j].image_urls # <<>>
                   /\ events[j].game_id = threads[events[j].thread].game_id
                   /\ events[j].namespace
                          = Namespace(threads[events[j].thread].game_id)
           /\ \A i \in DOMAIN threads :
               /\ Cardinality(ImagesOf(i)) <= 1
               /\ threads[i].state # "images" => ImagesOf(i) = {})
    /\ [][(lastOp'.op = "generate_image_async"
            /\ lastOp'.answer # "queued") =>
              (threads' = threads /\ events' = events)]_vars

\* a job of default-game was answered with two saved images after some
\* waiting, and the event went to the namespace of default-game
C16_TwoImagesSent ==
    /\ Len(threads) = 1
    /\ threads[1].game_id = "default-game"
    /\ polling[1] > 0
    /\ Len(events) = 1
    /\ events[1].event = "game_image"
    /\ Len(events[1].image_urls) = 2
    /\ events[1].namespace = Namespace("default-game")

-----------------------------------------------------------------------------
(* Properties of add_chat_message (SpecMongo, FairSpecMongo) *)

\* the messages of all games that the call of caller w has stored
StoredBy(w) ==
    {<<g, i>> \in Games \X (1..(MaxRestored + MaxWriters + 1)) :
        /\ i \in DOMAIN chat_history[g]
        /\ "metadata" \in DOMAIN chat_history[g][i]
        /\ chat_history[g][i].metadata.writer = w}

\* C13: in every interleaving of concurrent add_chat_message calls no two
\* stored messages of a game share a sequence_number, the sequence numbers
\* of a game with n stored messages are exactly 1..n, and a call that has
\* returned has stored exactly one message.
C13_SequenceNumbersUnique ==
    /\ \A g \in Games :
          LET msgs == chat_history[g]
          IN /\ \A i, j \in DOMAIN msgs :
                    i # j => msgs[i].sequence_number # msgs[j].sequence_number
             /\ {msgs[i].sequence_number : i \in DOMAIN msgs} = 1..Len(msgs)
    /\ \A w \in DOMAIN writers :
          /\ writers[w].pc = "returned" => Cardinality(StoredBy(w)) = 1
          /\ writers[w].pc # "returned" => StoredBy(w) = {}

\* three callers have stored a message for g1, two of them after a
\* conflict on the sequence number
C13_ThreeWritersStored ==
    /\ Len(writers) = 3
    /\ \A w \in DOMAIN writers :
          writers[w].pc = "returned" /\ writers[w].game_id = "g1"
    /\ Cardinality({w \in DOMAIN writers : writers[w].retried}) = 2

\* caller w has left add_chat_message
Left(w) == writers[w].pc \in {"returned", "raised"}

\* C14: every add_chat_message call eventually returns or raises.  A
\* duplicate-key conflict is retried, and the retry reads the highest
\* sequence number again; an error other than a duplicate key is raised
\* to the caller without retry and without storing a message.
C14_AddChatMessageReturns ==
    /\ \A w \in 1..MaxWriters : (writers[w].pc # "idle") ~> Left(w)
    /\ [][\A w \in 1..MaxWriters :
            /\ (lastOp'.op = "insert_one" /\ lastOp'.writer = w
                 /\ lastOp'.outcome = "duplicate key")
                  => (writers'[w].pc = "find" /\ chat_history' = chat_history)
            /\ (writers[w].pc = "find" /\ writers'[w].pc = "insert")
                  => writers'[w].next_sequence
                       = next_sequence(chat_history[writers[w].game_id])
            /\ (lastOp'.op = "request_fails" /\ lastOp'.writer = w)
                  => (writers'[w].pc = "raised"
                      /\ chat_history' = chat_history)
            /\ Left(w) => writers'[w] = writers[w]]_vars

\* a caller has returned after a conflict while another one's call was
\* raised
C14_RetriedThenReturned ==
    \E w, v \in DOMAIN writers :
        /\ writers[w].pc = "returned"
        /\ writers[w].retried
        /\ writers[v].pc = "raised"

-----------------------------------------------------------------------------
(* Properties of the game master (SpecGM) *)

\* the last handler was /api/chat and it called process_game_request
ChatRan == lastOp.op = "chat" /\ lastOp.status = 200

\* what is compared of a stored document
Stored(docs) ==
    [i \in 1..Len(docs) |->
        [content |-> docs[i].content, type |-> docs[i].metadata.type,
         source |-> docs[i].metadata.source]]

IsLive(d) == d.metadata.source \in {"user_input", "ai_response"}
IsConversation(d) == d.metadata.type = "conversation"

\* the documents process_game_request has stored for the inputs and replies
LiveDocs(coll) == Stored(SelectSeq(coll, IsLive))

UserDoc(user_input) ==
    [content |-> <<"user: ">> \o user_input, type |-> "conversation",
     source |-> "user_input"]

GmDoc(message) ==
    [content |-> <<"GM: ">> \o message, type |-> "conversation",
     source |-> "ai_response"]

\* this step persisted the exchange of game g, but for the writes in `lost`
PersistedBut(g, user_input, message, lost) ==
    /\ g \in DOMAIN game_memories'
    /\ game_memories'[g] =
         Get(game_memories, g, <<>>)
         \o <<[type |-> "human", content |-> user_input],
              [type |-> "ai", content |-> message]>>
    /\ LiveDocs(chroma'[g]) =
         LiveDocs(chroma[g])
         \o (IF "store_user" \in lost THEN <<>> ELSE <<UserDoc(user_input)>>)
         \o (IF "store_gm" \in lost THEN <<>> ELSE <<GmDoc(message)>>)

\* this step is a /api/chat request whose result is success=True
ChatSucceeds ==
    /\ lastOp'.op = "chat"
    /\ lastOp'.status = 200
    /\ lastOp'.json.success

\* C1 as stated: every process_game_request that returns success=True has
\* persisted the exchange: the conversation memory gained the user input
\* followed by the GM message, and the vector store gained a 'conversation'
\* document for the user input and one for the GM message.
C1_SuccessPersists ==
    [][ChatSucceeds =>
          PersistedBut(lastOp'.game_id, lastOp'.user_input,
                       lastOp'.json.message, {})]_vars

\* C1, amended: a process_game_request that returns success=True without
\* game_over has added the user input followed by the GM message to the
\* conversation memory, and a 'conversation' document for the user input
\* and one for the GM message to the vector store, but for a write that
\* failed; one that returns the death response (game_over) has added
\* nothing to the conversation memory and no such document.
C1_SuccessPersistsUnlessDeath ==
    [][ChatSucceeds =>
          IF "game_over" \in DOMAIN lastOp'.json
          THEN /\ Get(game_memories', lastOp'.game_id, <<>>)
                    = Get(game_memories, lastOp'.game_id, <<>>)
               /\ LiveDocs(chroma'[lastOp'.game_id])
                    = LiveDocs(chroma[lastOp'.game_id])
          ELSE PersistedBut(lastOp'.game_id, lastOp'.user_input,
                            lastOp'.json.message, lastOp'.hit)]_vars

\* a second successful exchange of g1, all writes done: four messages in
\* the conversation memory
C1_SecondExchangeStored ==
    /\ ChatRan
    /\ lastOp.json.success
    /\ "game_over" \notin DOMAIN lastOp.json
    /\ lastOp.hit = {}
    /\ lastOp.game_id = "g1"
    /\ Len(game_memories["g1"]) = 4

\* document i of the conversation documents `docs` opens a turn: a player
\* input, a restored exchange, or a reply whose input was not stored
OpensTurn(docs, i) ==
    \/ i = 1
    \/ docs[i].metadata.source \in {"user_input", "restored_dialogue"}
    \/ /\ docs[i].metadata.source = "ai_response"
       /\ docs[i - 1].metadata.source # "user_input"

TurnStarts(docs) == {i \in 1..Len(docs) : OpensTurn(docs, i)}

\* the documents of the last n turns of `docs`, all of them when there are
\* no more than n turns
LastTurns(docs, n) ==
    LET starts == TurnStarts(docs)
    IN IF Cardinality(starts) <= n THEN docs
       ELSE LET first == CHOOSE i \in starts :
                    Cardinality({j \in starts : j >= i}) = n
            IN SubSeq(docs, first, Len(docs))

\* the texts a prompt quotes verbatim
RECURSIVE Verbatim(_)
Verbatim(chat_summary) ==
    IF chat_summary = <<>> THEN <<>>
    ELSE (IF Head(chat_summary).part \in {"recent", "all"}
          THEN Head(chat_summary).texts ELSE <<>>)
         \o Verbatim(Tail(chat_summary))

\* the conversation documents of `coll` stored up to time t
StoredUpTo(coll, t) ==
    LET Old(d) == IsConversation(d) /\ Get(d.metadata, "timestamp", 0) <= t
    IN SelectSeq(coll, Old)

\* C2 as stated: the prompt quotes verbatim the last 10 stored turns of the
\* game (a turn being one player input with its GM reply), all of its
\* dialogue when there are 10 turns or fewer; earlier dialogue is in it only
\* as the vector search returned it.  (Stated for requests whose query of
\* the stored dialogue is answered.)
C2_LastTenTurnsVerbatim ==
    [][(/\ lastOp'.op = "chat"
        /\ lastOp'.status = 200
        /\ lastOp'.prompt # <<>>
        /\ "get" \notin lastOp'.hit) =>
          LET docs == StoredUpTo(chroma'[lastOp'.game_id], now)
          IN Verbatim(lastOp'.prompt[1].chat_summary)
               = Contents(LastTurns(docs, 10))]_vars

\* the request C2 fails on: more than ten documents stored for fewer than
\* eleven turns, of which the prompt quotes ten documents
C2_TenDocumentsQuoted ==
    /\ ChatRan
    /\ lastOp.prompt # <<>>
    /\ "get" \notin lastOp.hit
    /\ Len(Verbatim(lastOp.prompt[1].chat_summary)) = 10
    /\ Cardinality(TurnStarts(SelectSeq(chroma[lastOp.game_id],
                                        IsConversation))) <= 7

\* the character the update of the last request returned has health <= 0
ReturnedDead ==
    /\ lastOp.updated_char # <<>>
    /\ Get(lastOp.updated_char[1], "health", JNum(1)).v <= 0

\* C3 as stated: when the LLM response carries a character update and the
\* character returned by applying it has health <= 0, the result is the
\* death response (success=True, game_over=True, no options,
\* need_image=False), also when the death-summary call fails; every other
\* result has no game_over flag.
C3_DeathResponse ==
    ChatRan =>
        IF ReturnedDead
        THEN /\ lastOp.json.success
             /\ "game_over" \in DOMAIN lastOp.json
             /\ lastOp.json.game_over
             /\ lastOp.json.options = <<>>
             /\ lastOp.json.need_image = FALSE
        ELSE "game_over" \notin DOMAIN lastOp.json

\* the request C3 fails on: the update brought the character to health 0
\* and the result is the error response
C3_DeadButErrorResponse ==
    /\ ChatRan
    /\ ReturnedDead
    /\ ~lastOp.json.success

\* C8: POST /api/chat with an empty or whitespace-only message (or none)
\* is answered 400 with success=False and the game master is not invoked:
\* no LLM call, no character update, and the conversation memory, the
\* session contexts and the vector stores stay as they were.
C8_BlankMessageRejected ==
    [][(/\ lastOp'.op = "chat"
        /\ lastOp'.body.json
        /\ Strip(Get(lastOp'.body.data, "message", <<>>)) = <<>>) =>
          /\ lastOp'.status = 400
          /\ ~lastOp'.json.success
          /\ llm_calls' = llm_calls
          /\ patches' = patches
          /\ UNCHANGED <<game_memories, session_contexts, vector_stores,
                         retrievers, base_scenarios, chroma, backend>>]_vars

\* a whitespace-only message was posted for g1
C8_WhitespaceMessagePosted ==
    /\ lastOp.op = "chat"
    /\ lastOp.body.json
    /\ lastOp.body.data = [message |-> <<" ">>, game_id |-> "g1"]
    /\ lastOp.status = 400

\* C9: after reset_game(game_id) the conversation memory and the session
\* contexts have no entry for the game, its vector store and its retriever
\* are gone from the process, and get_memory_stats reports
\* total_exists = False.
C9_ResetClearsMemory ==
    lastOp.op = "reset_game" =>
        /\ lastOp.game_id \notin DOMAIN game_memories
        /\ lastOp.game_id \notin DOMAIN session_contexts
        /\ lastOp.game_id \notin vector_stores
        /\ lastOp.game_id \notin retrievers
        /\ ~get_memory_stats(lastOp.game_id).total_exists

\* a game that had all four entries was reset, and its Chroma collection
\* could not be deleted
C9_LoadedGameReset ==
    /\ lastOp.op = "reset_game"
    /\ lastOp.had = [memory |-> TRUE, context |-> TRUE, store |-> TRUE,
                     retriever |-> TRUE]
    /\ chroma[lastOp.game_id] # <<>>

\* the history lists the conversation documents of `coll`, in the order in
\* which the collection received them
ListsConversations(history, coll) ==
    LET docs == SelectSeq(coll, IsConversation)
    IN /\ Len(history) = Len(docs)
       /\ \A i \in 1..Len(docs) :
            /\ history[i].content = docs[i].content
            /\ history[i].role = Get(docs[i].metadata, "role", "unknown")
            /\ history[i].timestamp = Get(docs[i].metadata, "timestamp", 0)

\* C10 as stated: GET /api/history/<game_id> returns every stored
\* conversation document of the game and no other document, oldest to
\* newest in the order in which they were stored, with total the number of
\* items returned.
C10_HistoryListsConversations ==
    lastOp.op = "history" =>
        /\ lastOp.status = 200
        /\ lastOp.json.total = Len(lastOp.json.history)
        /\ ListsConversations(lastOp.json.history, chroma[lastOp.game_id])

\* C10, amended: when the game's vector store can be opened, the answer is
\* 200 with total the number of items returned; the items are every stored
\* conversation document of the game and no other document, oldest to
\* newest in the order in which they were stored, when the query of the
\* store is answered, and none when the query fails.  When the store
\* cannot be opened the answer is 500 with success=False.
C10_HistoryListsConversationsIfQueried ==
    lastOp.op = "history" =>
        IF lastOp.status = 200
        THEN /\ lastOp.json.success
             /\ lastOp.json.total = Len(lastOp.json.history)
             /\ IF lastOp.failed
                THEN lastOp.json.history = <<>>
                ELSE ListsConversations(lastOp.json.history,
                                        chroma[lastOp.game_id])
        ELSE /\ lastOp.status = 500
             /\ ~lastOp.json.success
             /\ lastOp.game_id \notin vector_stores

\* the history of g1 was asked after an exchange was added to the restored
\* ones: it lists conversation documents with and without a timestamp, and
\* the collection holds other documents too
C10_MixedHistoryReturned ==
    /\ lastOp.op = "history"
    /\ lastOp.status = 200
    /\ ~lastOp.failed
    /\ Len(lastOp.json.history) >= 4
    /\ lastOp.json.history[1].timestamp = 0
    /\ lastOp.json.history[Len(lastOp.json.history)].timestamp > 0
    /\ Len(chroma[lastOp.game_id]) > Len(lastOp.json.history)

\* the LLM output the last request parsed was no JSON text
ParsedNoJson(op) == op.llm # 0 /\ ~LLMOutputs[op.llm].parsed.ok

\* C11: when the LLM output is empty, whitespace-only or no valid JSON,
\* process_game_request returns success=True with a fallback message (the
\* raw LLM text when it is not blank), a non-empty default options list and
\* need_image=False; it sends no character update, and the exchange is
\* persisted as that of a normal response is: the conversation memory gains
\* the input and the fallback message, the vector store a document for
\* each but for a write that failed.
C11_FallbackOnUnparsableOutput ==
    [][(/\ lastOp'.op = "chat"
        /\ lastOp'.status = 200
        /\ ParsedNoJson(lastOp')) =>
          LET raw == LLMOutputs[lastOp'.llm].raw
          IN /\ lastOp'.kind = "normal"
             /\ lastOp'.json.success
             /\ lastOp'.json.message =
                   IF Strip(raw) = <<>> THEN EmptyFallback.v.message ELSE raw
             /\ lastOp'.json.options # <<>>
             /\ lastOp'.json.need_image = FALSE
             /\ lastOp'.json.image_info = <<>>
             /\ patches' = patches
             /\ backend' = backend
             /\ PersistedBut(lastOp'.game_id, lastOp'.user_input,
                             lastOp'.json.message, lastOp'.hit)]_vars

\* the LLM answered g1 with a text that is no JSON, and the text is the
\* last message of the conversation memory and of the stored documents
C11_RawTextAnswered ==
    /\ ChatRan
    /\ lastOp.llm # 0
    /\ LLMOutputs[lastOp.llm].raw = RawText
    /\ lastOp.json.message = RawText
    /\ lastOp.game_id = "g1"
    /\ game_memories["g1"][Len(game_memories["g1"])].content = RawText
    /\ chroma["g1"][Len(chroma["g1"])].content = <<"GM: ">> \o RawText

\* the response_data process_game_request made of the LLM output the last
\* request parsed
ResponseData(op) == ParseResponse(LLMOutputs[op.llm]).v

\* C19: a failure while storing the user input or the GM message in the
\* vector store is only logged: the request still returns the normal
\* success response with the message and the options of the LLM response,
\* the conversation memory has gained the exchange, and the write that
\* did not fail has been made.
C19_StoreFailureOnlyLogged ==
    [][(/\ lastOp'.op = "chat"
        /\ lastOp'.status = 200
        /\ lastOp'.hit \cap {"store_user", "store_gm"} # {}) =>
          /\ lastOp'.kind = "normal"
          /\ lastOp'.json.success
          /\ "error" \notin DOMAIN lastOp'.json
          /\ lastOp'.json.message = ResponseData(lastOp').message
          /\ lastOp'.json.options
                = Get(ResponseData(lastOp'), "options", <<>>)
          /\ PersistedBut(lastOp'.game_id, lastOp'.user_input,
                          lastOp'.json.message, lastOp'.hit)]_vars

\* the user input of a request of g1 could not be stored: the answer is
\* the LLM's message, and the last stored document is the GM message
C19_UserInputNotStored ==
    /\ ChatRan
    /\ lastOp.hit = {"store_user"}
    /\ lastOp.game_id = "g1"
    /\ lastOp.json.success
    /\ lastOp.json.message = GmText
    /\ game_memories["g1"][Len(game_memories["g1"])].content = GmText
    /\ chroma["g1"][Len(chroma["g1"])].content = <<"GM: ">> \o GmText
    /\ chroma["g1"][Len(chroma["g1"]) - 1].metadata.source # "user_input"

\* the character list cached for game g in contexts ctx
CachedCharacters(ctx, g) == Get(Get(ctx, g, EmptyDict), "characters", <<>>)

\* the update_character of the response the request op parsed, when it is
\* one process_game_request hands to _update_character_info (lines 203-205)
UpdateOf(op) == Get(ResponseData(op), "update_character", JNull)

UpdateAttempted(op) ==
    /\ op.op = "chat"
    /\ op.status = 200
    /\ op.llm # 0
    /\ UpdateOf(op).t = "dict"
    /\ UpdateOf(op).v # EmptyDict

\* the character list the request finds cached once _prepare_game_context
\* has run
PreparedCharacters(op) ==
    CachedCharacters(
        prepare_game_context(session_contexts, op.game_id,
                             backend[op.game_id], [faults |-> op.hit]),
        op.game_id)

\* C20 as stated: when the PATCH request fails, or no character is cached
\* for the game, or the update has none of the allowed fields,
\* _update_character_info returns None, the cached character list stays
\* as it was, no death handling occurs, and a response that carries a
\* message is answered normally and persisted.
C20_NoUpdateContinuesNormally ==
    [][(/\ UpdateAttempted(lastOp')
        /\ "message" \in DOMAIN ResponseData(lastOp')
        /\ \/ "patch" \in lastOp'.hit
           \/ PreparedCharacters(lastOp') = <<>>
           \/ AllowedFields \cap DOMAIN UpdateOf(lastOp').v = {}) =>
          /\ lastOp'.updated_char = <<>>
          /\ CachedCharacters(session_contexts', lastOp'.game_id)
                = PreparedCharacters(lastOp')
          /\ lastOp'.kind = "normal"
          /\ lastOp'.json.message = ResponseData(lastOp').message
          /\ PersistedBut(lastOp'.game_id, lastOp'.user_input,
                          lastOp'.json.message, lastOp'.hit)]_vars

\* a request of g1, whose character is cached, got an update whose only
\* field is outside the allowed ones and holds a dict where the character
\* holds a number: the answer is the error response and nothing of the
\* exchange is kept
C20_DisallowedDictUpdateFails ==
    /\ ChatRan
    /\ lastOp.game_id = "g1"
    /\ lastOp.hit = {}
    /\ UpdateAttempted(lastOp)
    /\ DOMAIN UpdateOf(lastOp).v = {"maxHealth"}
    /\ CachedCharacters(session_contexts, "g1") # <<>>
    /\ lastOp.kind = "error"
    /\ ~lastOp.json.success
    /\ patches = <<>>

-----------------------------------------------------------------------------
(* Properties of the game namespace (SpecWS) *)

\* the last handler was on_message and it emitted one event, the
\* game_response of its game with the result's success
AnsweredOnce ==
    /\ Len(events) = lastOp.events_before + 1
    /\ events[Len(events)].event = "game_response"
    /\ events[Len(events)].game_id = lastOp.game_id
    /\ events[Len(events)].namespace = Namespace(lastOp.game_id)
    /\ events[Len(events)].success = lastOp.json.success

\* C4 as stated: every 'message' event is answered with exactly one
\* 'game_response' carrying the game's game_id, and a failure of the LLM or
\* of a backend during the processing makes it a response with
\* success=False.
C4_AnsweredFailureIsNoSuccess ==
    lastOp.op = "on_message" =>
        /\ AnsweredOnce
        /\ lastOp.hit # {} => ~lastOp.json.success

\* C4, amended: every 'message' event is answered with exactly one
\* 'game_response' carrying the game's game_id.  It has success=False when
\* the main LLM call or the opening of the game's vector store fails, and
\* otherwise only when the LLM's answer cannot be processed; a failure of
\* the game API, of the vector search, of the conversation query, of a
\* vector-store write or of the death-summary LLM call alone leaves
\* success=True.
C4_AnsweredOnceWhateverFails ==
    lastOp.op = "on_message" =>
        /\ AnsweredOnce
        /\ lastOp.hit \cap {"llm", "init"} # {} => ~lastOp.json.success
        /\ ~lastOp.json.success =>
              \/ lastOp.hit \cap {"llm", "init"} # {}
              \/ lastOp.json.error = "response"

\* a message was answered with success=True although the PATCH of the
\* character failed
C4_PatchFailedAnswered ==
    /\ lastOp.op = "on_message"
    /\ lastOp.hit = {"patch"}
    /\ events[Len(events)].event = "game_response"
    /\ events[Len(events)].success

\* the game_response that asked for the image of thread t
ResponseOf(t) == events[t.started_after]

\* C5: the 'game_response' of a message is emitted before its image
\* generation is started, a 'game_image' event comes only after the
\* 'game_response' of its message, and on_message returns with the image
\* job still polling.
C5_ResponseBeforeImage ==
    /\ \A i \in DOMAIN threads :
          /\ threads[i].started_after \in DOMAIN events
          /\ ResponseOf(threads[i]).event = "game_response"
          /\ ResponseOf(threads[i]).game_id = threads[i].game_id
          /\ ResponseOf(threads[i]).need_image
          /\ ResponseOf(threads[i]).image_info # <<>>
          /\ ResponseOf(threads[i]).image_info[1].prompt = threads[i].prompt
    /\ \A j \in DOMAIN events :
          events[j].event = "game_image" =>
              /\ events[j].thread \in DOMAIN threads
              /\ threads[events[j].thread].started_after < j
              /\ threads[events[j].thread].state = "images"
    /\ (lastOp.op = "on_message" /\ Len(threads) > lastOp.threads_before) =>
          /\ Len(threads) = lastOp.threads_before + 1
          /\ threads[Len(threads)].state = "polling"
          /\ threads[Len(threads)].started_after = Len(events)
          /\ \A j \in DOMAIN events :
                events[j].event = "game_image" =>
                    events[j].thread # Len(threads)

\* the image of the first message was sent after a second message had been
\* answered
C5_ImageSentAfterSecondAnswer ==
    /\ Len(threads) >= 1
    /\ threads[1].state = "images"
    /\ Len(events) >= 4
    /\ events[Len(events)].event = "game_image"
    /\ events[Len(events)].thread = 1
    /\ events[Len(events) - 1].event = "game_response"
    /\ threads[1].started_after < Len(events) - 1

\* the threads that are polling
Polling == {i \in DOMAIN threads : threads[i].state = "polling"}

AsksImage(op) ==
    /\ op.llm # 0
    /\ LLMOutputs[op.llm].parsed.ok
    /\ LLMOutputs[op.llm].parsed.value.t = "dict"
    /\ Get(LLMOutputs[op.llm].parsed.value.v, "need_image", FALSE)
    /\ Get(LLMOutputs[op.llm].parsed.value.v, "image_prompt", <<>>) # <<>>

\* the last message started a polling thread
StartedImage(op) == Len(threads) > op.threads_before

\* C18 as stated: image generation is started for a message exactly when
\* the LLM response has need_image true and a non-empty image_prompt, and
\* the image_info of the result is non-null exactly in that case.
C18_ImageIffAsked ==
    lastOp.op = "on_message" =>
        /\ StartedImage(lastOp) <=> AsksImage(lastOp)
        /\ Get(lastOp.json, "image_info", <<>>) # <<>> <=> AsksImage(lastOp)

\* C18, amended: the result has a non-null image_info, and on_message
\* calls generate_image_async, exactly when the result is the normal
\* response to an LLM response with need_image true and a non-empty
\* image_prompt; the call starts the image job only when the ComfyUI
\* manager exists and queues the prompt.  Fallback, error and death
\* responses have no image_info and start nothing.
C18_ImageIffAskedAndNormal ==
    lastOp.op = "on_message" =>
        LET asked == AsksImage(lastOp) /\ lastOp.kind = "normal"
        IN /\ Get(lastOp.json, "image_info", <<>>) # <<>> <=> asked
           /\ WantsImage(lastOp.json) <=> asked
           /\ StartedImage(lastOp) <=>
                 (asked /\ comfy_manager # NoneVal
                  /\ lastOp.answer = "queued")
           /\ (lastOp.kind # "normal" \/ ~LLMOutputs[lastOp.llm].parsed.ok) =>
                 ~StartedImage(lastOp)

\* the LLM asked for an image in the response that killed the character:
\* the death response was sent and no image job was started
C18_DeathAskedImage ==
    /\ lastOp.op = "on_message"
    /\ AsksImage(lastOp)
    /\ lastOp.kind = "death"
    /\ comfy_manager # NoneVal
    /\ ~StartedImage(lastOp)

-----------------------------------------------------------------------------
(* Properties of _deep_merge (SpecMerge) *)

\* result is source merged into destination: a key absent from source
\* keeps its value, a dict of source is merged into the entry of the
\* destination (an empty dict leaves an entry as it is), a list or a scalar
\* of source replaces the entry
RECURSIVE IsMerged(_, _, _)
IsMerged(source, destination, result) ==
    /\ DOMAIN result = DOMAIN source \cup DOMAIN destination
    /\ \A k \in DOMAIN result :
          IF k \notin DOMAIN source THEN result[k] = destination[k]
          ELSE IF source[k].t # "dict" THEN result[k] = source[k]
          ELSE IF k \in DOMAIN destination /\ source[k].v = EmptyDict
          THEN result[k] = destination[k]
          ELSE /\ result[k].t = "dict"
               /\ IsMerged(source[k].v,
                           IF k \in DOMAIN destination
                              /\ destination[k].t = "dict"
                           THEN destination[k].v ELSE EmptyDict,
                           result[k].v)

\* C21 as stated: for every pair of dictionaries _deep_merge completes and
\* returns the destination in which every key absent from source keeps
\* its value, every dict of source is merged recursively into the entry
\* of the destination, and every list or scalar of source replaces the
\* entry (lists are never concatenated).
C21_DeepMergeCompletes ==
    merge.state \notin {"none", "called"} =>
        /\ merge.state = "returned"
        /\ IsMerged(merge.source, merge.destination, merge.result)

\* a dict of source met a number of the destination, and the call raised
\* instead of returning
C21_DictOverNumberRaises ==
    /\ merge.state = "raised"
    /\ merge.source = [a |-> JDict([b |-> JNum(1)])]
    /\ merge.destination = [a |-> JNum(1)]

-----------------------------------------------------------------------------
(* Properties of the character PATCH (SpecGM) *)

\* the fields of a character the game API lets be changed
PatchFields ==
    {"name", "class", "level", "stats", "inventory", "avatar", "health"}

\* value is what merging field f of the update into the character gives
SentMerged(f, update, character, value) ==
    IsMerged([k \in {f} |-> update[k]],
             [k \in {f} \cap DOMAIN character |-> character[k]],
             [k \in {f} |-> value])

\* C22: the PATCH payload _update_character_info sends holds a field
\* exactly when the field is one of name, class, level, stats, inventory,
\* avatar, health and is in update_character; the value sent is the
\* deep-merged one (for stats the cached stats overlaid with the updated
\* entries); no PATCH is sent when update_character has no such field,
\* and a request sends at most one.
C22_PatchPayloadIsAllowedMergedFields ==
    [][/\ Len(patches') <= Len(patches) + 1
       /\ (/\ UpdateAttempted(lastOp')
           /\ PatchFields \cap DOMAIN UpdateOf(lastOp').v = {}) =>
             patches' = patches
       /\ patches' # patches =>
             /\ UpdateAttempted(lastOp')
             /\ LET request == patches'[Len(patches')]
                    update == UpdateOf(lastOp').v
                    character == PreparedCharacters(lastOp')[1]
                IN /\ patches' = Append(patches, request)
                   /\ request.game_id = lastOp'.game_id
                   /\ request.payload # EmptyDict
                   /\ DOMAIN request.payload = PatchFields \cap DOMAIN update
                   /\ \A f \in DOMAIN request.payload :
                         SentMerged(f, update, character,
                                    request.payload[f])]_vars

\* the LLM changed the strength of the hero of g1 and named a mood: the
\* PATCH carries the stats alone, the cached wisdom along with the new
\* strength
C22_StatsOverlaid ==
    /\ ChatRan
    /\ lastOp.game_id = "g1"
    /\ UpdateAttempted(lastOp)
    /\ DOMAIN UpdateOf(lastOp).v = {"stats", "mood"}
    /\ patches # <<>>
    /\ patches[Len(patches)] =
          [game_id |-> "g1",
           payload |-> [stats |-> JDict([strength |-> JNum(7),
                                         wisdom |-> JNum(3)])]]

-----------------------------------------------------------------------------
(* Properties of the template lookups (SpecTemplates) *)

\* the collection and the default key of lookup fn
LookupCollection(fn) ==
    IF fn = "get_scenario_by_type" THEN "scenarios"
    ELSE IF fn = "get_character_template" THEN "character_templates"
    ELSE "event_templates"

LookupDefault(fn) ==
    IF fn = "get_scenario_by_type" THEN "medieval_fantasy"
    ELSE IF fn = "get_character_template" THEN "adventurer"
    ELSE "random_encounter"

Holds(c, key) == \E i \in DOMAIN templates.db[c] : templates.db[c][i] = key

\* C23 as stated: get_scenario_by_type, get_character_template and
\* get_event_template terminate for every argument and every reachable
\* database state, returning the matching document when there is one and
\* otherwise the default document ('medieval_fantasy', 'adventurer',
\* 'random_encounter').
C23_LookupReturnsMatchOrDefault ==
    (templates.manager = "ready" /\ templates.lookup # NoLookup) =>
        LET l == templates.lookup
        IN /\ ~l.result.raised
           /\ l.result.doc.key =
                 IF Holds(LookupCollection(l.fn), l.arg) THEN l.arg
                 ELSE LookupDefault(l.fn)
           /\ l.result.doc._id.t = "str"

\* an earlier start stored the scenarios and failed before it stored a
\* character template; the manager of the next start is asked for the
\* wizard template and the lookup recurses without end
C23_TemplateLookupNeverReturns ==
    /\ templates.manager = "ready"
    /\ templates.db["scenarios"] = DefaultKeys["scenarios"]
    /\ templates.db["character_templates"] = <<>>
    /\ templates.lookup.fn = "get_character_template"
    /\ templates.lookup.arg = "wizard"
    /\ templates.lookup.result.raised
====
